---- MODULE Spec2Model ----
(***************************************************************************)
(* State-machine model of SearchAPIManager                                 *)
(* (src/src/services/search_api_manager.py): the key rotation store, the   *)
(* five provider adapters and the interleaved search coordinator.          *)
(*                                                                         *)
(* Concurrency model: one asyncio event loop.  A coroutine runs atomically *)
(* from one suspension point to the next; the only suspension points are   *)
(* `await asyncio.gather(...)` in the coordinator and the network request  *)
(* inside an adapter.                                                      *)
(***************************************************************************)
EXTENDS Integers, Sequences, FiniteSets, TLC

(***************************************************************************)
(* Bounds of the model.                                                    *)
(***************************************************************************)
\* largest numeric suffix of a PROVIDER_API_KEY_<n> variable that may be set
MaxSuffix == 2
\* largest number of credential variables set in the environment (SpecKeys)
MaxEnvVars == 3
\* largest number of direct get_next_api_key calls made by a caller
MaxCalls == 4
\* number of interleaved_search invocations that may be in flight together
MaxInv == 2
\* largest number of interleaved_search calls made on one manager (Spec)
MaxRuns == 2
\* largest number of items in one provider's native response (SpecSearch)
MaxItems == 2
\* largest number of items the backends return in one search (SpecSearch)
MaxTotalItems == 4
\* largest number of credential variables set in the environment (Spec)
MaxEnvShared == 2
\* largest number of direct get_next_api_key calls between searches (Spec)
MaxDirect == 1
\* largest number of providers with a credential (SpecMassive)
MaxEnvMassive == 2
\* largest number of items in one provider's native response (SpecMassive)
MaxItemsMassive == 1
\* largest number of pages the navigation collaborator reports (SpecMassive)
MaxPages == 1
\* largest length of a list the social collaborator returns (SpecMassive)
MaxPosts == 1
\* largest number of leads extracted from one item (SpecMassive)
MaxLeads == 1
\* direct adapter calls in SpecAdapter
MaxAdapterCalls == 2
\* credential variables set in SpecCaller, direct calls and writes of the
\* caller there, and the largest value the caller writes
MaxEnvCaller == 2
MaxCallerCalls == 2
MaxCallerWrites == 2
MaxCallerValue == 1
\* credential variables set in SpecTwice
MaxEnvTwice == 2
\* execute_complete_analysis requests (sessions) in SpecAnalysis
MaxSessions == 2

(***************************************************************************)
(* Program constants.                                                      *)
(***************************************************************************)
\* providers = ['SERPER', 'GOOGLE', 'EXA', 'FIRECRAWL', 'JINA']
Providers == <<"SERPER", "GOOGLE", "EXA", "FIRECRAWL", "JINA">>

ProviderSet == {Providers[k] : k \in 1..Len(Providers)}

\* a provider name the manager does not know (any string outside the list)
Unknown == "UNKNOWN"

\* Python's None as returned by get_next_api_key
None == -1

\* Suffix 0 stands for the unsuffixed variable PROVIDER_API_KEY, suffix n >= 1
\* for PROVIDER_API_KEY_n.  A credential is identified with the variable it
\* was read from.
Suffixes == 0..MaxSuffix

VARIABLES
    env,            \* os.environ: env[p] = suffixes whose variable is set (non-empty)
    cse_id,         \* whether GOOGLE_CSE_ID is set
    api_keys,       \* self.api_keys: provider -> list of credentials
    key_indices,    \* self.key_indices: provider -> cursor
    provider_stats, \* self.provider_stats: provider -> counters
    returned,       \* history: per provider name, the values get_next_api_key returned
    ncalls,         \* history: number of direct get_next_api_key calls so far
    pc,             \* per interleaved_search invocation: where its coroutine stands
    search_tasks,   \* per invocation: the list search_tasks (providers, launch order)
    task,           \* per invocation and provider: where the adapter coroutine stands
    result,         \* per invocation and provider: what the adapter returned
    completed,      \* history: per invocation, the providers in order of task completion
    search_results, \* per invocation: the dict search_results
    nruns,          \* history: number of interleaved_search calls so far
    mpc,            \* per invocation: where execute_massive_search_with_websailor stands
    massive_results,\* per invocation: the dict massive_results
    stage_log,      \* history: per invocation, the stages the aggregator entered
    lead_calls,     \* history: per invocation, the calls of the lead collaborators
    stub,           \* the deterministic test doubles a caller has installed, if any
    caller_stats,   \* the dict a caller got from get_provider_stats, if any
    adapter_call,   \* an adapter a caller awaits outside interleaved_search
    local_progress_sessions, \* routes/analysis.py: the progress tracker of each session
    analysis        \* routes/analysis.py: where each execute_complete_analysis request stands

\* the manager object, the histories of the rotation store, the invocations
mgrVars == <<env, cse_id, api_keys, key_indices, provider_stats>>
keyHist == <<returned, ncalls>>
invVars == <<pc, search_tasks, task, result, completed, search_results, nruns>>

aggVars == <<mpc, massive_results, stage_log, lead_calls>>

\* what a caller holds
\* the analysis route
routeVars == <<local_progress_sessions, analysis>>

callerVars == <<stub, caller_stats, adapter_call, routeVars>>

vars == <<mgrVars, keyHist, invVars, aggVars, callerVars>>

\* the interleaved_search invocations the model follows
Invs == 1..MaxInv

\* placeholder for the result of an adapter that has not returned yet
NoResult == [pending |-> TRUE]

\* lines 81-88: the dict search_results as interleaved_search creates it
\* (query and timestamp are inputs the coordinator only copies)
NewSearchResults ==
    [all_results |-> <<>>, successful_searches |-> 0,
     failed_searches |-> 0, consolidated_urls |-> <<>>]

\* placeholder for the dict of an aggregator run that does not exist
NoMassive == [none |-> TRUE]

\* the lead collaborators have not been called
NoLeadCalls == [extracted |-> <<>>, returned |-> <<>>, saved |-> <<>>]

\* no test doubles are installed: the network and the collaborators answer
\* as they like
NoStub == [none |-> TRUE]

\* the caller has not called get_provider_stats: held = it has the dict,
\* providers = the keys of its dict, writes = how often it changed it
NoCallerStats == [held |-> FALSE, providers |-> {}, writes |-> 0]

\* no adapter has been called outside interleaved_search: provider and
\* state of the last such call, what it returned, the network requests it
\* issued, and the number of such calls
NoAdapterCall ==
    [provider |-> "", state |-> "idle", result |-> NoResult, requests |-> 0, calls |-> 0]

\* the sessions of the analysis route
Sessions == 1..MaxSessions

\* no tracker is registered for a session
NoTracker == [none |-> TRUE]

\* no request has been made for a session: pc = where the request stands,
\* stage = the pipeline stage it is at (1..5), success and error_type = what
\* execute_enhanced_analysis returned, stage_failed = an external stage raised
NoAnalysis ==
    [pc |-> "idle", stage |-> 0, success |-> FALSE, error_type |-> "",
     stage_failed |-> FALSE]

(***************************************************************************)
(* _load_api_keys                                                          *)
(***************************************************************************)
RECURSIVE NumberedKeysAcrossGaps(_, _)
\* faulty variant of NumberedKeys: a missing suffix is skipped and the loop
\* goes on to the highest suffix
NumberedKeysAcrossGaps(set, counter) ==
    IF counter > MaxSuffix THEN <<>>
    ELSE (IF counter \in set THEN <<counter>> ELSE <<>>)
         \o NumberedKeysAcrossGaps(set, counter + 1)

RECURSIVE NumberedKeys(_, _)
\* the `while True` loop: keys with suffix counter, counter+1, ... up to the
\* first suffix whose variable is not set
NumberedKeys(set, counter) ==
    IF counter \in set
    THEN <<counter>> \o NumberedKeys(set, counter + 1)
    ELSE <<>>

\* the list `keys` built for one provider
ProviderKeys(set) ==
    (IF 0 \in set THEN <<0>> ELSE <<>>) \o NumberedKeys(set, 1)

\* the dict returned by _load_api_keys: only providers with a non-empty list
LoadApiKeys(e) ==
    [p \in {q \in ProviderSet : ProviderKeys(e[q]) # <<>>} |-> ProviderKeys(e[p])]

\* __init__: the state of a freshly constructed manager in environment e
Construct(e, cse) ==
    /\ env = e
    /\ cse_id = cse
    /\ api_keys = LoadApiKeys(e)
    /\ key_indices = [p \in DOMAIN LoadApiKeys(e) |-> 0]
    /\ provider_stats = << >>
    /\ returned = [p \in ProviderSet \cup {Unknown} |-> <<>>]
    /\ ncalls = 0
    /\ pc = [i \in Invs |-> "idle"]
    /\ search_tasks = [i \in Invs |-> <<>>]
    /\ task = [i \in Invs |-> [p \in ProviderSet |-> "none"]]
    /\ result = [i \in Invs |-> [p \in ProviderSet |-> NoResult]]
    /\ completed = [i \in Invs |-> <<>>]
    /\ search_results = [i \in Invs |-> NewSearchResults]
    /\ nruns = 0
    /\ mpc = [i \in Invs |-> "none"]
    /\ massive_results = [i \in Invs |-> NoMassive]
    /\ stage_log = [i \in Invs |-> <<>>]
    /\ lead_calls = [i \in Invs |-> NoLeadCalls]
    /\ caller_stats = NoCallerStats
    /\ adapter_call = NoAdapterCall
    /\ local_progress_sessions = [s \in Sessions |-> NoTracker]
    /\ analysis = [s \in Sessions |-> NoAnalysis]

(***************************************************************************)
(* get_next_api_key                                                        *)
(***************************************************************************)
\* line 61: the early return
NoKey(p) == p \notin DOMAIN api_keys \/ api_keys[p] = <<>>

\* faulty variant of NextIndex: wraps one position early, so the last key
\* of the pool is never reached
NextIndexEarlyWrap(current_index, n) ==
    IF current_index + 1 < n - 1 THEN current_index + 1 ELSE 0

\* faulty variant of NextIndex: the increment without the modulo
NextIndexNoWrap(current_index, n) == current_index + 1

\* line 68: the cursor after handing out the key at current_index
NextIndex(current_index, n) == (current_index + 1) % n

\* faulty variant of KeyAt: reads the key after the cursor
KeyAtNext(keys, current_index) ==
    keys[IF current_index + 2 <= Len(keys) THEN current_index + 2 ELSE 1]

\* line 67: keys[current_index] (Python lists are 0-based, sequences 1-based)
KeyAt(keys, current_index) == keys[current_index + 1]

\* faulty variant of NextApiKey: at the last position of a pool of several
\* keys the call gives None (and goes on to move the cursor and to count)
NextApiKeyNoneAtLast(p) ==
    IF NoKey(p) THEN None
    ELSE IF Len(api_keys[p]) > 1 /\ key_indices[p] = Len(api_keys[p]) - 1 THEN None
    ELSE KeyAt(api_keys[p], key_indices[p])

\* faulty variant of NextApiKey: a provider without keys gets a default
\* credential instead of None
NextApiKeyDefault(p) ==
    IF NoKey(p) THEN 0 ELSE KeyAt(api_keys[p], key_indices[p])

\* the value the call returns in the current state
NextApiKey(p) ==
    IF NoKey(p) THEN None ELSE KeyAt(api_keys[p], key_indices[p])

\* faulty variant of CountRequest: only the providers that issue a search
\* request get a statistics entry
CountRequestNetworkOnly(stats, p) ==
    IF p \in {"SERPER", "GOOGLE", "EXA"}
    THEN LET st == IF p \in DOMAIN stats
                   THEN stats
                   ELSE stats @@ (p :> [requests |-> 0, successes |-> 0, failures |-> 0])
         IN [st EXCEPT ![p].requests = @ + 1]
    ELSE stats

\* faulty variant of CountRequest: counts only in an entry that exists
CountRequestNoCreate(stats, p) ==
    IF p \in DOMAIN stats THEN [stats EXCEPT ![p].requests = @ + 1] ELSE stats

\* lines 71-73: the statistics after one more request of provider p
CountRequest(stats, p) ==
    LET st == IF p \in DOMAIN stats
              THEN stats
              ELSE stats @@ (p :> [requests |-> 0, successes |-> 0, failures |-> 0])
    IN [st EXCEPT ![p].requests = @ + 1]

\* faulty variant of AdvanceCursor: the write of the cursor is lost while
\* two invocations are in flight (a read and a write split by a suspension)
AdvanceCursorRacy(indices, p) ==
    IF \E i, j \in Invs : i # j /\ pc[i] = "gather" /\ pc[j] = "gather"
    THEN indices
    ELSE [indices EXCEPT ![p] = NextIndex(@, Len(api_keys[p]))]

\* line 68: self.key_indices[provider] = (current_index + 1) % len(keys),
\* executed in the same step as the read of line 66
AdvanceCursor(indices, p) ==
    [indices EXCEPT ![p] = NextIndex(@, Len(api_keys[p]))]

\* the whole call: its effect on the manager (and on the history)
GetNextApiKey(p) ==
    /\ returned' = [returned EXCEPT ![p] = Append(@, NextApiKey(p))]
    /\ IF NoKey(p)
       THEN UNCHANGED <<key_indices, provider_stats>>
       ELSE /\ key_indices' = AdvanceCursor(key_indices, p)
            /\ provider_stats' = CountRequest(provider_stats, p)
    /\ UNCHANGED <<env, cse_id, api_keys>>

\* a caller invokes get_next_api_key(p) directly
CallGetNextApiKey(p) ==
    /\ ncalls < MaxCalls
    /\ ncalls' = ncalls + 1
    /\ GetNextApiKey(p)
    /\ UNCHANGED <<invVars, aggVars, callerVars>>

(***************************************************************************)
(* What the network gives an adapter.                                      *)
(***************************************************************************)
\* the URLs a backend may report
Links == {"a", "b"}

\* a native item that carries no link field
Absent == "<absent>"

\* what dict.get(key) gives for a missing key, in a place where a string is expected
NoneStr == "<None>"

\* a native item is identified with the value of its link field
NativeItems == Links \cup {Absent}

RECURSIVE SeqsUpTo(_, _)
\* the sequences over S of length at most n
SeqsUpTo(S, n) ==
    IF n = 0 THEN {<<>>}
    ELSE LET shorter == SeqsUpTo(S, n - 1)
         IN shorter \cup {Append(t, x) : t \in {u \in shorter : Len(u) = n - 1}, x \in S}

\* a response: status 200 with a list of native items ("ok"), any other
\* status ("status"), or an exception raised while requesting or decoding
\* ("raise": timeout, connection error, invalid JSON)
Responses(n) ==
    {[kind |-> "ok", items |-> it] : it \in SeqsUpTo(NativeItems, n)}
    \cup {[kind |-> "status", items |-> <<>>], [kind |-> "raise", items |-> <<>>]}

(***************************************************************************)
(* The adapters _search_serper, _search_google, _search_exa,               *)
(* _search_firecrawl, _search_jina.                                        *)
(***************************************************************************)
\* the adapters that issue a network request
NetworkProviders == {"SERPER", "GOOGLE", "EXA"}

\* the 'source' tag an adapter writes into its items
SourceTag(p) ==
    CASE p = "SERPER" -> "serper"
      [] p = "GOOGLE" -> "google"
      [] p = "EXA" -> "exa"

\* the success and the failure dicts an adapter returns
Success(p, items) == [success |-> TRUE, provider |-> p, results |-> items]

Failure(msg) == [success |-> FALSE, error |-> msg]

\* item.get('link', '') / item.get('url', ''): a missing field becomes ''
\* (title and snippet are copied the same way and read by nothing in the core)
MapItem(p, native) ==
    [url |-> IF native = Absent THEN "" ELSE native, source |-> SourceTag(p)]

\* the provider's name as the adapter writes it in its messages
ProviderWord(p) ==
    CASE p = "SERPER" -> "Serper"
      [] p = "GOOGLE" -> "Google"
      [] p = "EXA" -> "Exa"
      [] p = "FIRECRAWL" -> "Firecrawl"
      [] p = "JINA" -> "Jina"

\* the dict an adapter returns when it has no credential (GOOGLE: or no
\* GOOGLE_CSE_ID); the error text is its only content
NoCredential(p) ==
    Failure(ProviderWord(p) \o (IF p = "GOOGLE" THEN " API nao configurado"
                                                ELSE " API key nao disponivel"))

\* faulty variant of AdapterBegin: the content-extraction backends report
\* that searching is not supported
AdapterBeginExtractionFails(p, api_key) ==
    IF p = "GOOGLE"
    THEN IF api_key = None \/ ~cse_id
         THEN [state |-> "done", result |-> NoCredential(p)]
         ELSE [state |-> "net", result |-> NoResult]
    ELSE IF api_key = None
    THEN [state |-> "done", result |-> NoCredential(p)]
    ELSE IF p \in NetworkProviders
    THEN [state |-> "net", result |-> NoResult]
    ELSE [state |-> "done", result |-> Failure("not supported")]

\* the adapter from its first line to its first suspension point, given the
\* value get_next_api_key returned: it has returned a dict, or it waits for
\* the network
AdapterBegin(p, api_key) ==
    IF p = "GOOGLE"
    THEN IF api_key = None \/ ~cse_id
         THEN [state |-> "done", result |-> NoCredential(p)]
         ELSE [state |-> "net", result |-> NoResult]
    ELSE IF api_key = None
    THEN [state |-> "done", result |-> NoCredential(p)]
    ELSE IF p \in NetworkProviders
    THEN [state |-> "net", result |-> NoResult]
    ELSE [state |-> "done", result |-> Success(p, <<>>)]

\* faulty variant of AdapterEnd: no `except Exception`, the exception leaves
\* the adapter and gather hands it over as a value
AdapterEndPropagates(p, resp) ==
    IF resp.kind = "ok"
    THEN Success(p, [k \in 1..Len(resp.items) |-> MapItem(p, resp.items[k])])
    ELSE IF resp.kind = "status"
    THEN Failure("HTTP status")
    ELSE [exception |-> "exception"]

\* the adapter from the response to its return; `except Exception` turns an
\* exception into a failure dict
AdapterEnd(p, resp) ==
    IF resp.kind = "ok"
    THEN Success(p, [k \in 1..Len(resp.items) |-> MapItem(p, resp.items[k])])
    ELSE IF resp.kind = "status"
    THEN Failure("HTTP status")
    ELSE Failure("exception")

(***************************************************************************)
(* interleaved_search                                                      *)
(***************************************************************************)
\* faulty variant of BuildSearchTasks: GOOGLE is passed over when no
\* search-engine id is configured
BuildSearchTasksSkipGoogle ==
    SelectSeq(Providers, LAMBDA p : p \in DOMAIN api_keys /\ (p = "GOOGLE" => cse_id))

\* faulty variant of BuildSearchTasks: an adapter for every provider
BuildSearchTasksAll == Providers

\* lines 91-106: the providers an adapter coroutine is created for
BuildSearchTasks == SelectSeq(Providers, LAMBDA p : p \in DOMAIN api_keys)

\* faulty variant of GatherResults: the results in the order the tasks
\* finished in (as asyncio.as_completed would give them)
GatherResultsAsCompleted(i) ==
    [k \in 1..Len(completed[i]) |-> result[i][completed[i][k]]]

\* line 111: asyncio.gather returns the results of invocation i in the order
\* of the awaitables it was given, whatever the order the tasks finished in
GatherResults(i) ==
    [k \in 1..Len(search_tasks[i]) |-> result[i][search_tasks[i][k]]]

\* dict.get(key) on a record
Get(d, key) == IF key \in DOMAIN d THEN d[key] ELSE NoneStr

\* Python truth of a string or None
Truthy(x) == x # "" /\ x # NoneStr

\* line 129: item.get('url') or item.get('link')
ItemUrl(item) ==
    IF Truthy(Get(item, "url")) THEN Get(item, "url") ELSE Get(item, "link")

\* `url in list`
InSeq(x, seq) == \E k \in 1..Len(seq) : seq[k] = x

\* faulty variant of KeepUrl: no membership test
KeepUrlNoDedup(url, urls) == Truthy(url)

\* line 130: whether the url is appended to consolidated_urls
KeepUrl(url, urls) == Truthy(url) /\ ~InSeq(url, urls)

RECURSIVE MergeUrls(_, _)
\* lines 128-131: the loop over one result's items
MergeUrls(urls, items) ==
    IF items = <<>> THEN urls
    ELSE LET url == ItemUrl(Head(items))
         IN MergeUrls(IF KeepUrl(url, urls) THEN Append(urls, url) ELSE urls,
                      Tail(items))

\* isinstance(result, Exception): gather(return_exceptions=True) hands an
\* exception that escaped a task over as a value
IsException(r) == "exception" \in DOMAIN r

\* faulty variant of IsSuccess: tests the presence of the key, not its value
IsSuccessAny(r) == "success" \in DOMAIN r

\* line 122: result.get('success')
IsSuccess(r) == "success" \in DOMAIN r /\ r.success

\* line 128: result.get('results', [])
ResultItems(r) == IF "results" \in DOMAIN r THEN r.results ELSE <<>>

\* faulty variant of Bump: the outcome is counted twice
BumpByTwo(acc, p, counter) ==
    IF p \in DOMAIN acc.stats
    THEN [acc EXCEPT !.stats[p][counter] = @ + 2]
    ELSE [acc EXCEPT !.raised = TRUE]

\* faulty variant of Bump: the counter is written from a value read when the
\* manager was built (0), so the increments of earlier invocations are lost
BumpFromStale(acc, p, counter) ==
    IF p \in DOMAIN acc.stats
    THEN [acc EXCEPT !.stats[p][counter] = 1]
    ELSE [acc EXCEPT !.raised = TRUE]

\* self.provider_stats[provider_name][counter] += 1; a missing entry is a KeyError
Bump(acc, p, counter) ==
    IF p \in DOMAIN acc.stats
    THEN [acc EXCEPT !.stats[p][counter] = @ + 1]
    ELSE [acc EXCEPT !.raised = TRUE]

\* faulty variant of Classify: a success without items is passed over, it is
\* counted neither as a success nor as a failure
ClassifyIgnoreEmpty(acc, provider_name, r) ==
    IF IsException(r) \/ ~IsSuccess(r)
    THEN Bump([acc EXCEPT !.sr.failed_searches = @ + 1], provider_name, "failures")
    ELSE IF ResultItems(r) = <<>> THEN acc
    ELSE LET a1 == [acc EXCEPT !.sr.all_results = Append(@, r),
                               !.sr.successful_searches = @ + 1]
             a2 == Bump(a1, provider_name, "successes")
         IN IF a2.raised THEN a2
            ELSE [a2 EXCEPT !.sr.consolidated_urls = MergeUrls(@, ResultItems(r))]

\* faulty variant of Classify: a failure dict is retained in all_results too
ClassifyKeepAll(acc, provider_name, r) ==
    IF IsException(r) \/ ~IsSuccess(r)
    THEN Bump([acc EXCEPT !.sr.failed_searches = @ + 1,
                          !.sr.all_results = Append(@, r)], provider_name, "failures")
    ELSE LET a1 == [acc EXCEPT !.sr.all_results = Append(@, r),
                               !.sr.successful_searches = @ + 1]
             a2 == Bump(a1, provider_name, "successes")
         IN IF a2.raised THEN a2
            ELSE [a2 EXCEPT !.sr.consolidated_urls = MergeUrls(@, ResultItems(r))]

\* lines 114-134: one iteration of the loop over the gathered results.
\* acc = [sr: search_results, stats: provider_stats, raised: a KeyError escaped]
Classify(acc, provider_name, r) ==
    IF IsException(r) \/ ~IsSuccess(r)
    THEN Bump([acc EXCEPT !.sr.failed_searches = @ + 1], provider_name, "failures")
    ELSE LET a1 == [acc EXCEPT !.sr.all_results = Append(@, r),
                               !.sr.successful_searches = @ + 1]
             a2 == Bump(a1, provider_name, "successes")
         IN IF a2.raised THEN a2
            ELSE [a2 EXCEPT !.sr.consolidated_urls = MergeUrls(@, ResultItems(r))]

RECURSIVE ProcessResults(_, _, _, _)
\* lines 113-134: the loop, from the k-th result on
ProcessResults(acc, tasks, results, k) ==
    IF k > Len(results) \/ acc.raised THEN acc
    ELSE ProcessResults(Classify(acc, tasks[k], results[k]), tasks, results, k + 1)

\* slot i follows no call that is still running
SlotFree(i) == pc[i] # "gather" /\ mpc[i] \notin {"api", "social"}

\* the coroutine up to `await asyncio.gather(...)`, or to its return when no
\* provider is configured (`if search_tasks:` is false)
BeginInterleavedSearch(i) ==
    /\ nruns' = nruns + 1
    /\ search_tasks' = [search_tasks EXCEPT ![i] = BuildSearchTasks]
    /\ task' = [task EXCEPT ![i] =
                  [p \in ProviderSet |-> IF InSeq(p, BuildSearchTasks) THEN "new" ELSE "none"]]
    /\ result' = [result EXCEPT ![i] = [p \in ProviderSet |-> NoResult]]
    /\ completed' = [completed EXCEPT ![i] = <<>>]
    /\ search_results' = [search_results EXCEPT ![i] = NewSearchResults]
    /\ pc' = [pc EXCEPT ![i] = IF BuildSearchTasks = <<>> THEN "done" ELSE "gather"]

\* a caller invokes interleaved_search
CallInterleavedSearch(i) ==
    /\ SlotFree(i)
    /\ BeginInterleavedSearch(i)
    /\ mpc' = [mpc EXCEPT ![i] = "none"]
    /\ massive_results' = [massive_results EXCEPT ![i] = NoMassive]
    /\ stage_log' = [stage_log EXCEPT ![i] = <<>>]
    /\ lead_calls' = [lead_calls EXCEPT ![i] = NoLeadCalls]
    /\ UNCHANGED <<mgrVars, keyHist, callerVars>>

\* the tasks of invocation i that have not run yet, in launch order
NotStarted(i) == SelectSeq(search_tasks[i], LAMBDA p : task[i][p] = "new")

\* the event loop runs the next task of invocation i (tasks start in the
\* order gather created them) up to its first suspension point
StartAdapter(i) ==
    /\ pc[i] = "gather"
    /\ NotStarted(i) # <<>>
    /\ LET p == Head(NotStarted(i))
           b == AdapterBegin(p, NextApiKey(p))
       IN /\ GetNextApiKey(p)
          /\ task' = [task EXCEPT ![i][p] = b.state]
          /\ result' = [result EXCEPT ![i][p] = b.result]
          /\ completed' = [completed EXCEPT ![i] =
                              IF b.state = "done" THEN Append(@, p) ELSE @]
    /\ UNCHANGED <<ncalls, pc, search_tasks, search_results, nruns, aggVars, callerVars>>

\* faulty variant of CompleteAdapter: on a response that is not a 200 the
\* adapter draws the next credential and asks again
CompleteAdapterRetry(i, p, resp) ==
    /\ pc[i] = "gather"
    /\ task[i][p] = "net"
    /\ NotStarted(i) = <<>>
    /\ IF resp.kind # "ok" /\ Len(returned[p]) <= MaxRuns
       THEN /\ GetNextApiKey(p)
            /\ UNCHANGED <<ncalls, task, result, completed>>
       ELSE /\ task' = [task EXCEPT ![i][p] = "done"]
            /\ result' = [result EXCEPT ![i][p] = AdapterEnd(p, resp)]
            /\ completed' = [completed EXCEPT ![i] = Append(@, p)]
            /\ UNCHANGED <<mgrVars, keyHist>>
    /\ UNCHANGED <<pc, search_tasks, search_results, nruns, aggVars, callerVars>>

\* the network answers the request of adapter p of invocation i.  A response
\* is delivered in a later iteration of the event loop than the one that
\* started the tasks, so every task of the invocation has started by then.
CompleteAdapter(i, p, resp) ==
    /\ pc[i] = "gather"
    /\ task[i][p] = "net"
    /\ NotStarted(i) = <<>>
    /\ task' = [task EXCEPT ![i][p] = "done"]
    /\ result' = [result EXCEPT ![i][p] = AdapterEnd(p, resp)]
    /\ completed' = [completed EXCEPT ![i] = Append(@, p)]
    /\ UNCHANGED <<mgrVars, keyHist, pc, search_tasks, search_results, nruns, aggVars, callerVars>>

\* faulty variant of AllFinished: the barrier waits for an adapter of every
\* provider, launched or not
AllFinishedAllProviders(i) == \A p \in ProviderSet : task[i][p] = "done"

\* faulty variant of AllFinished: the barrier also opens as soon as one
\* task has returned a failure (a gather that gives up at the first failure)
AllFinishedOrOneFailed(i) ==
    \/ \A p \in ProviderSet : task[i][p] \in {"none", "done"}
    \/ \E p \in ProviderSet : task[i][p] = "done" /\ ~IsSuccess(result[i][p])

\* every task of invocation i has finished
AllFinished(i) == \A p \in ProviderSet : task[i][p] \in {"none", "done"}

\* lines 113-134 on the gathered results of invocation i
Gathered(i) ==
    ProcessResults([sr |-> search_results[i], stats |-> provider_stats, raised |-> FALSE],
                   search_tasks[i], GatherResults(i), 1)

\* every task has finished: gather resumes the coordinator, which classifies
\* the results and returns search_results (or lets a KeyError escape)
JoinInterleavedSearch(i) ==
    /\ pc[i] = "gather"
    /\ mpc[i] = "none"
    /\ AllFinished(i)
    /\ provider_stats' = Gathered(i).stats
    /\ search_results' = [search_results EXCEPT ![i] = Gathered(i).sr]
    /\ pc' = [pc EXCEPT ![i] = IF Gathered(i).raised THEN "raised" ELSE "done"]
    /\ UNCHANGED <<env, cse_id, api_keys, key_indices, keyHist,
                   search_tasks, task, result, completed, nruns, aggVars, callerVars>>

(***************************************************************************)
(* execute_massive_search_with_websailor                                   *)
(***************************************************************************)
\* end_time - start_time: some elapsed time (0 is the value before it is set)
Elapsed == 1

\* Python's None in a place where a list is expected
NoneList == <<NoneStr>>

\* d[k] = v on a dict that may not have the key yet
SetKey(d, k, v) == [x \in DOMAIN d \cup {k} |-> IF x = k THEN v ELSE d[x]]

\* {'error': str(e)}
ErrorMarker(msg) == [error |-> msg]

\* lines 338-357: massive_results as created (query, session_id and
\* search_started are inputs the aggregator only copies; an empty dict and
\* an empty list are both the empty function)
NewMassiveResults ==
    [api_results |-> <<>>, websailor_results |-> <<>>, social_results |-> <<>>,
     viral_content |-> <<>>, screenshots_captured |-> <<>>, images_extracted |-> <<>>,
     statistics |-> [total_sources |-> 0, api_sources |-> 0, websailor_pages |-> 0,
                     social_posts |-> 0, screenshots_count |-> 0, images_count |-> 0,
                     search_duration |-> 0]]

\* what the deep-navigation collaborator does: it raises (or cannot be
\* imported), it returns None, or it returns a dict whose page count is a
\* number or None
NavOutcomes(n) ==
    {[kind |-> "raise", pages |-> 0], [kind |-> "none", pages |-> 0]}
    \cup {[kind |-> "ok", pages |-> k] : k \in (0..n) \cup {None}}

\* a list of k opaque entries
ListOf(k) == [j \in 1..k |-> "x"]

\* the values of one field of the social extractor's dict: a list or None
SocialField(n) == {ListOf(k) : k \in 0..n} \cup {NoneList}

\* what the social-extraction collaborator does: it raises (or cannot be
\* imported), it returns None, or it returns a dict with the three fields
SocialOutcomes(n) ==
    {[kind |-> k, social_content |-> <<>>, screenshots |-> <<>>,
      images_extracted |-> <<>>] : k \in {"raise", "none"}}
    \cup {[kind |-> "ok", social_content |-> a, screenshots |-> b,
           images_extracted |-> c] :
              a \in SocialField(n), b \in SocialField(n), c \in SocialField(n)}

\* the values an item's url field may have
UrlValues == Links \cup {""}

\* what the lead collaborators do: whether services.leads can be imported,
\* per item url (of the urls given) how many leads
\* extract_lead_data_from_item returns (-1: it raises), whether
\* save_leads_locally returns
LeadOutcomes(urls, n) ==
    {[import_ok |-> FALSE, extract |-> [u \in urls |-> 0], save_ok |-> TRUE]}
    \cup [import_ok : {TRUE}, extract : [urls -> (-1)..n], save_ok : BOOLEAN]

\* the aggregator's coroutine between two suspension points is followed on
\* a record: mr = massive_results, raised = an exception is on its way to
\* the handler of line 490, log = the stages entered so far and the stages
\* in which an exception was raised, calls = the calls of the lead
\* collaborators
RECURSIVE AggregateUrlsAppendAll(_, _)
\* faulty variant of AggregateUrls: every item's url is appended, seen
\* before or not
AggregateUrlsAppendAll(urls, list) ==
    IF list = <<>> THEN urls
    ELSE LET items == ResultItems(Head(list))
         IN AggregateUrlsAppendAll(
                urls \o SelectSeq([k \in 1..Len(items) |-> ItemUrl(items[k])], Truthy),
                Tail(list))

RECURSIVE AggregateUrls(_, _)
\* lines 370-376: the URL list rebuilt from the retained provider results
AggregateUrls(urls, list) ==
    IF list = <<>> THEN urls
    ELSE AggregateUrls(IF ResultItems(Head(list)) # <<>>
                       THEN MergeUrls(urls, ResultItems(Head(list)))
                       ELSE urls,
                       Tail(list))

\* line 364: the aggregator enters stage 1 and calls interleaved_search
Stage1Begin(mr) ==
    [mr |-> mr, raised |-> FALSE, log |-> <<"api_search">>, calls |-> NoLeadCalls]

\* faulty variant of Stage1: api_sources is taken from the cumulative
\* successes counters of the manager
Stage1CumulativeSources(acc, sr, coordinator_raised) ==
    IF coordinator_raised THEN [acc EXCEPT !.raised = TRUE]
    ELSE [acc EXCEPT !.mr =
             SetKey([@ EXCEPT !.api_results = sr.all_results,
                              !.statistics.api_sources =
                                  Len(sr.all_results)
                                  + Cardinality({p \in DOMAIN provider_stats :
                                                    provider_stats[p].successes > 0})],
                    "consolidated_urls", AggregateUrls(<<>>, sr.all_results))]

\* faulty variant of Stage1: api_sources counts only the provider results
\* that brought items
Stage1CountNonEmpty(acc, sr, coordinator_raised) ==
    IF coordinator_raised THEN [acc EXCEPT !.raised = TRUE]
    ELSE [acc EXCEPT !.mr =
             SetKey([@ EXCEPT !.api_results = sr.all_results,
                              !.statistics.api_sources =
                                  Len(SelectSeq(sr.all_results,
                                                LAMBDA r : ResultItems(r) # <<>>))],
                    "consolidated_urls", AggregateUrls(<<>>, sr.all_results))]

\* lines 364-378: stage 1 after interleaved_search returned sr, or let an
\* exception escape (coordinator_raised)
Stage1(acc, sr, coordinator_raised) ==
    IF coordinator_raised THEN [acc EXCEPT !.raised = TRUE]
    ELSE [acc EXCEPT !.mr =
             SetKey([@ EXCEPT !.api_results = sr.all_results,
                              !.statistics.api_sources = Len(sr.all_results)],
                    "consolidated_urls", AggregateUrls(<<>>, sr.all_results))]

\* lines 385-395: the body of the try block of stage 2
Stage2Try(acc, nav) ==
    IF nav.kind = "ok"
    THEN [acc EXCEPT !.mr.websailor_results =
                         [navegacao_profunda |-> [total_paginas_analisadas |-> nav.pages]],
                     !.mr.statistics.websailor_pages = nav.pages]
    ELSE [acc EXCEPT !.log = Append(@, "navigation_failed")]

\* faulty variant of Stage2: no try/except around the navigation call
Stage2NoIsolation(acc, nav) ==
    IF acc.raised THEN acc
    ELSE LET a == Stage2Try([acc EXCEPT !.log = Append(@, "navigation")], nav)
         IN IF nav.kind = "ok" THEN a ELSE [a EXCEPT !.raised = TRUE]

\* lines 380-401: stage 2.  A None result fails at line 394 (None has no
\* get) after line 393 stored it; the handler overwrites it.
Stage2(acc, nav) ==
    IF acc.raised THEN acc
    ELSE LET a == Stage2Try([acc EXCEPT !.log = Append(@, "navigation")], nav)
         IN IF nav.kind = "ok" THEN a
            ELSE [a EXCEPT !.mr.websailor_results = ErrorMarker(nav.kind)]

\* line 409: the aggregator enters stage 3 and calls the social extractor
Stage3Begin(acc) ==
    IF acc.raised THEN acc ELSE [acc EXCEPT !.log = Append(@, "social")]

\* lines 415-426: the body of the try block of stage 3 from the answer of
\* the social extractor on.  The assignments of lines 415-418 are made
\* before len() is taken (lines 420-422); len(None) raises TypeError.
\* Gives the dict and whether an exception left the block.
Stage3Try(mr, soc) ==
    IF soc.kind # "ok" THEN [mr |-> mr, failed |-> TRUE]
    ELSE LET m1 == [mr EXCEPT
                       !.social_results = [social_content |-> soc.social_content,
                                           screenshots |-> soc.screenshots,
                                           images_extracted |-> soc.images_extracted],
                       !.viral_content = soc.social_content,
                       !.screenshots_captured = soc.screenshots,
                       !.images_extracted = soc.images_extracted]
             m2 == [m1 EXCEPT !.statistics.social_posts = Len(soc.social_content)]
             m3 == [m2 EXCEPT !.statistics.screenshots_count = Len(soc.screenshots)]
             m4 == [m3 EXCEPT !.statistics.images_count = Len(soc.images_extracted)]
         IN IF soc.social_content = NoneList THEN [mr |-> m1, failed |-> TRUE]
            ELSE IF soc.screenshots = NoneList THEN [mr |-> m2, failed |-> TRUE]
            ELSE IF soc.images_extracted = NoneList THEN [mr |-> m3, failed |-> TRUE]
            ELSE [mr |-> m4, failed |-> FALSE]

\* faulty variant of Stage3: no try/except around the social extraction
Stage3NoIsolation(acc, soc) ==
    LET t == Stage3Try(acc.mr, soc)
    IN IF t.failed
       THEN [acc EXCEPT !.mr = t.mr, !.log = Append(@, "social_failed"),
                        !.raised = TRUE]
       ELSE [acc EXCEPT !.mr = t.mr]

\* lines 415-430: stage 3 once the social extractor has answered; the
\* handler of line 428 stores the error marker and nothing else
Stage3(acc, soc) ==
    LET t == Stage3Try(acc.mr, soc)
    IN IF t.failed
       THEN [acc EXCEPT !.mr = [t.mr EXCEPT !.social_results =
                    ErrorMarker(IF soc.kind = "ok" THEN "TypeError" ELSE soc.kind)],
                        !.log = Append(@, "social_failed")]
       ELSE [acc EXCEPT !.mr = t.mr]

RECURSIVE ItemsToExtract(_)
\* lines 450-452: the items the extraction loop visits, provider results in
\* list order, items in result order
ItemsToExtract(list) ==
    IF list = <<>> THEN <<>>
    ELSE ResultItems(Head(list)) \o ItemsToExtract(Tail(list))

\* line 453: item.get('url', item.get('link', 'N/A'))
LeadUrl(item) ==
    IF "url" \in DOMAIN item THEN item.url
    ELSE IF "link" \in DOMAIN item THEN item.link ELSE "N/A"

\* the urls extract_lead_data_from_item is called with in a run on mr
ItemUrls(mr) ==
    {LeadUrl(ItemsToExtract(mr.api_results)[k]) :
        k \in 1..Len(ItemsToExtract(mr.api_results))}

\* the list extract_lead_data_from_item(item, url) returns when it gives n leads
ItemLeads(item, n) == [k \in 1..n |-> [url |-> LeadUrl(item), lead |-> k]]

RECURSIVE ExtractLeadsPrepend(_, _, _)
\* faulty variant of ExtractLeads: the leads of an item are put in front of
\* the leads of the items before it
ExtractLeadsPrepend(loop, items, ld) ==
    IF items = <<>> \/ loop.raised THEN loop
    ELSE LET item == Head(items)
             n == ld.extract[LeadUrl(item)]
             called == [loop EXCEPT !.extracted = Append(@, item)]
         IN ExtractLeadsPrepend(
                IF n < 0 THEN [called EXCEPT !.raised = TRUE]
                ELSE [called EXCEPT !.leads = ItemLeads(item, n) \o @,
                                    !.returned = Append(@, ItemLeads(item, n))],
                Tail(items), ld)

RECURSIVE ExtractLeads(_, _, _)
\* lines 450-455: the extraction loop.  loop = [leads, extracted: the items
\* handed to extract_lead_data_from_item so far, returned: the lists it
\* returned, raised]
ExtractLeads(loop, items, ld) ==
    IF items = <<>> \/ loop.raised THEN loop
    ELSE LET item == Head(items)
             n == ld.extract[LeadUrl(item)]
             called == [loop EXCEPT !.extracted = Append(@, item)]
         IN ExtractLeads(
                IF n < 0 THEN [called EXCEPT !.raised = TRUE]
                ELSE [called EXCEPT !.leads = @ \o ItemLeads(item, n),
                                    !.returned = Append(@, ItemLeads(item, n))],
                Tail(items), ld)

\* faulty variant of Stage4Try: save_leads_locally is called with an empty
\* list too
Stage4TrySaveAlways(mr, ld) ==
    LET extraction ==
            IF ld.import_ok
            THEN ExtractLeads([leads |-> <<>>, extracted |-> <<>>, returned |-> <<>>,
                               raised |-> FALSE],
                              ItemsToExtract(mr.api_results), ld)
            ELSE [leads |-> <<>>, extracted |-> <<>>, returned |-> <<>>, raised |-> TRUE]
        loop == IF ~extraction.raised /\ mr.viral_content = NoneList
                THEN [extraction EXCEPT !.raised = TRUE]
                ELSE extraction
        saving == ~loop.raised
    IN [leads |-> loop.leads,
        calls |-> [extracted |-> loop.extracted, returned |-> loop.returned,
                   saved |-> IF saving THEN <<loop.leads>> ELSE <<>>],
        failed |-> loop.raised \/ (saving /\ ~ld.save_ok)]

\* lines 435-465: the body of the try block of stage 4 up to the call of
\* save_leads_locally.  The loop of line 458 over viral_content raises
\* TypeError when stage 3 left None there.  Gives the leads, the calls made
\* and whether an exception left the block.
Stage4Try(mr, ld) ==
    LET extraction ==
            IF ld.import_ok
            THEN ExtractLeads([leads |-> <<>>, extracted |-> <<>>, returned |-> <<>>,
                               raised |-> FALSE],
                              ItemsToExtract(mr.api_results), ld)
            ELSE [leads |-> <<>>, extracted |-> <<>>, returned |-> <<>>, raised |-> TRUE]
        loop == IF ~extraction.raised /\ mr.viral_content = NoneList
                THEN [extraction EXCEPT !.raised = TRUE]
                ELSE extraction
        saving == ~loop.raised /\ loop.leads # <<>>
    IN [leads |-> loop.leads,
        calls |-> [extracted |-> loop.extracted, returned |-> loop.returned,
                   saved |-> IF saving THEN <<loop.leads>> ELSE <<>>],
        failed |-> loop.raised \/ (saving /\ ~ld.save_ok)]

\* faulty variant of Stage4: no try/except around the leads stage
Stage4NoIsolation(acc, ld) ==
    IF acc.raised THEN acc
    ELSE LET t == Stage4Try(acc.mr, ld)
             a == [acc EXCEPT !.log = Append(@, "leads"), !.calls = t.calls]
         IN IF t.failed
            THEN [a EXCEPT !.log = Append(@, "leads_failed"), !.raised = TRUE]
            ELSE [a EXCEPT !.mr = SetKey([@ EXCEPT !.statistics =
                                              SetKey(@, "leads_count", Len(t.leads))],
                                         "leads_extracted", t.leads)]

\* faulty variant of Stage4: the handler of line 471 stores nothing
Stage4NoDefaults(acc, ld) ==
    IF acc.raised THEN acc
    ELSE LET t == Stage4Try(acc.mr, ld)
             a == [acc EXCEPT !.log = Append(@, "leads"), !.calls = t.calls]
         IN IF t.failed
            THEN [a EXCEPT !.log = Append(@, "leads_failed")]
            ELSE [a EXCEPT !.mr = SetKey([@ EXCEPT !.statistics =
                                              SetKey(@, "leads_count", Len(t.leads))],
                                         "leads_extracted", t.leads)]

\* faulty variant of Stage4: the handler of line 471 keeps the leads that
\* were extracted before the exception
Stage4KeepsLeads(acc, ld) ==
    IF acc.raised THEN acc
    ELSE LET t == Stage4Try(acc.mr, ld)
             a == [acc EXCEPT !.log = Append(@, "leads"), !.calls = t.calls]
             stored == [a EXCEPT !.mr = SetKey([@ EXCEPT !.statistics =
                                                   SetKey(@, "leads_count", Len(t.leads))],
                                               "leads_extracted", t.leads)]
         IN IF t.failed
            THEN [stored EXCEPT !.log = Append(@, "leads_failed")]
            ELSE stored

\* lines 432-474: stage 4; the handler of line 471 stores an empty lead list
Stage4(acc, ld) ==
    IF acc.raised THEN acc
    ELSE LET t == Stage4Try(acc.mr, ld)
             a == [acc EXCEPT !.log = Append(@, "leads"), !.calls = t.calls]
             leads == IF t.failed THEN <<>> ELSE t.leads
             stored == [a EXCEPT !.mr = SetKey([@ EXCEPT !.statistics =
                                                   SetKey(@, "leads_count", Len(leads))],
                                               "leads_extracted", leads)]
         IN IF t.failed
            THEN [stored EXCEPT !.log = Append(@, "leads_failed")]
            ELSE stored

\* lines 476-488: the final statistics.  The sum of line 477 raises
\* TypeError when the page count stored by stage 2 is None.
Stage5(acc) ==
    IF acc.raised THEN acc
    ELSE LET a == [acc EXCEPT !.log = Append(@, "finalize")]
             st == acc.mr.statistics
         IN IF st.websailor_pages = None
            THEN [a EXCEPT !.raised = TRUE]
            ELSE [a EXCEPT !.mr.statistics.total_sources =
                               st.api_sources + st.websailor_pages + st.social_posts,
                           !.mr.statistics.search_duration = Elapsed]

\* faulty variant of TopLevelExcept: no handler, the exception goes on to
\* the caller
TopLevelReraise(acc) == acc

\* lines 490-494: the handler of an exception that escaped the stages
TopLevelExcept(acc) ==
    IF acc.raised
    THEN [acc EXCEPT !.raised = FALSE,
                     !.log = Append(@, "except"),
                     !.mr = SetKey([@ EXCEPT !.statistics.search_duration = Elapsed],
                                   "error", "exception")]
    ELSE acc

\* faulty variant of AfterApiSearch: the social extractor is called before
\* the navigation
AfterApiSearchSocialFirst(acc, sr, coordinator_raised, nav) ==
    TopLevelExcept(Stage2(Stage3Begin(Stage1(acc, sr, coordinator_raised)), nav))

\* the coroutine from the return of interleaved_search (outcome sr) to its
\* next suspension point, the await of the social extractor, or to its
\* return through the handler
AfterApiSearch(acc, sr, coordinator_raised, nav) ==
    TopLevelExcept(Stage3Begin(Stage2(Stage1(acc, sr, coordinator_raised), nav)))

\* the coroutine from the answer of the social extractor to its return
AfterSocial(acc, soc, ld) ==
    TopLevelExcept(Stage5(Stage4(Stage3(acc, soc), ld)))

\* where the aggregator stands after a step: an exception has left it, it
\* has returned massive_results, or it awaits the social extractor
Position(acc) ==
    IF acc.raised THEN "raised"
    ELSE IF \E k \in 1..Len(acc.log) : acc.log[k] \in {"finalize", "except"}
    THEN "returned"
    ELSE "social"

\* a caller invokes the aggregator: it runs into interleaved_search (line
\* 364) up to gather; with no provider configured interleaved_search returns
\* at once and the aggregator runs on through stage 2 to the await of the
\* social extractor
CallMassiveSearch(i, nav) ==
    /\ SlotFree(i)
    /\ BeginInterleavedSearch(i)
    /\ LET a0 == Stage1Begin(NewMassiveResults)
           a == IF BuildSearchTasks = <<>>
                THEN AfterApiSearch(a0, NewSearchResults, FALSE, nav)
                ELSE a0
       IN /\ mpc' = [mpc EXCEPT ![i] =
                 IF BuildSearchTasks # <<>> THEN "api" ELSE Position(a)]
          /\ massive_results' = [massive_results EXCEPT ![i] = a.mr]
          /\ stage_log' = [stage_log EXCEPT ![i] = a.log]
          /\ lead_calls' = [lead_calls EXCEPT ![i] = a.calls]
    /\ UNCHANGED <<mgrVars, keyHist, callerVars>>

\* gather resumes interleaved_search inside an aggregator run: the
\* coordinator returns, stages 1 and 2 run (the navigation call is
\* synchronous) and the aggregator awaits the social extractor; a KeyError
\* out of the coordinator goes to the top-level handler
JoinMassiveSearch(i, nav) ==
    /\ pc[i] = "gather"
    /\ mpc[i] = "api"
    /\ AllFinished(i)
    /\ provider_stats' = Gathered(i).stats
    /\ search_results' = [search_results EXCEPT ![i] = Gathered(i).sr]
    /\ pc' = [pc EXCEPT ![i] = IF Gathered(i).raised THEN "raised" ELSE "done"]
    /\ LET a == AfterApiSearch([mr |-> massive_results[i], raised |-> FALSE,
                                log |-> stage_log[i], calls |-> lead_calls[i]],
                               Gathered(i).sr, Gathered(i).raised, nav)
       IN /\ mpc' = [mpc EXCEPT ![i] = Position(a)]
          /\ massive_results' = [massive_results EXCEPT ![i] = a.mr]
          /\ stage_log' = [stage_log EXCEPT ![i] = a.log]
          /\ lead_calls' = [lead_calls EXCEPT ![i] = a.calls]
    /\ UNCHANGED <<env, cse_id, api_keys, key_indices, keyHist,
                   search_tasks, task, result, completed, nruns, callerVars>>

\* the social extractor answers: stages 3, 4 and 5 run and the aggregator
\* returns massive_results
FinishMassiveSearch(i, soc, ld) ==
    /\ mpc[i] = "social"
    /\ LET a == AfterSocial([mr |-> massive_results[i], raised |-> FALSE,
                             log |-> stage_log[i], calls |-> lead_calls[i]], soc, ld)
       IN /\ massive_results' = [massive_results EXCEPT ![i] = a.mr]
          /\ stage_log' = [stage_log EXCEPT ![i] = a.log]
          /\ lead_calls' = [lead_calls EXCEPT ![i] = a.calls]
          /\ mpc' = [mpc EXCEPT ![i] = Position(a)]
    /\ UNCHANGED <<mgrVars, keyHist, invVars, callerVars>>

(***************************************************************************)
(* An adapter awaited by a caller outside interleaved_search.              *)
(***************************************************************************)
\* a caller awaits the adapter of p: it runs to its return or to its request
CallAdapter(p) ==
    /\ adapter_call.state # "net"
    /\ LET b == AdapterBegin(p, NextApiKey(p))
       IN /\ GetNextApiKey(p)
          /\ adapter_call' = [provider |-> p, state |-> b.state, result |-> b.result,
                              requests |-> IF b.state = "net" THEN 1 ELSE 0,
                              calls |-> adapter_call.calls + 1]
    /\ UNCHANGED <<ncalls, invVars, aggVars, stub, caller_stats, routeVars>>

\* the network answers the request of the adapter the caller awaits
ReturnAdapter(resp) ==
    /\ adapter_call.state = "net"
    /\ adapter_call' = [adapter_call EXCEPT
                           !.state = "done",
                           !.result = AdapterEnd(adapter_call.provider, resp)]
    /\ UNCHANGED <<mgrVars, keyHist, invVars, aggVars, stub, caller_stats, routeVars>>

(***************************************************************************)
(* get_provider_stats and what a caller does with the dict it returns.     *)
(***************************************************************************)
\* line 327: self.provider_stats.copy() is a new outer dict with the keys of
\* provider_stats whose values are the manager's own inner dicts
CallGetProviderStats ==
    /\ caller_stats' = [caller_stats EXCEPT !.held = TRUE,
                                            !.providers = DOMAIN provider_stats]
    /\ UNCHANGED <<mgrVars, keyHist, invVars, aggVars, stub, adapter_call, routeVars>>

\* the caller removes (or rebinds) the entry of p in the dict it holds: the
\* outer dict is its own
CallerDropsEntry(p) ==
    /\ caller_stats.held
    /\ p \in caller_stats.providers
    /\ caller_stats' = [caller_stats EXCEPT !.providers = @ \ {p}, !.writes = @ + 1]
    /\ UNCHANGED <<mgrVars, keyHist, invVars, aggVars, stub, adapter_call, routeVars>>

\* the caller assigns stats[p][counter] = v in the dict it holds: the inner
\* dict is the one the manager counts in
CallerSetsCounter(p, counter, v) ==
    /\ caller_stats.held
    /\ p \in caller_stats.providers
    /\ caller_stats' = [caller_stats EXCEPT !.writes = @ + 1]
    /\ provider_stats' = [provider_stats EXCEPT ![p][counter] = v]
    /\ UNCHANGED <<env, cse_id, api_keys, key_indices, keyHist, invVars, aggVars,
                   stub, adapter_call, routeVars>>

(***************************************************************************)
(* routes/analysis.py: LocalProgressTracker and the pipeline of            *)
(* execute_complete_analysis.  A step number is held in halves, so that    *)
(* step 3.5 is the integer 7 and step 4 the integer 8.                     *)
(***************************************************************************)
\* the step numbers are multiples of one half
Halves == 2

\* an int step number
Whole(n) == n * Halves

\* isinstance(step, int): only an int can index a list
IsInt(step) == step % Halves = 0

\* line 365: self.total_steps = 13
TotalSteps == 13

\* lines 367-381: len(self.steps)
NumStepMessages == 13

\* lines 555, 569, 578, 584, 590: the step numbers progress_callback is
\* called with: 1, 2, 3, 3.5, 4
PipelineSteps == <<Whole(1), Whole(2), Whole(3), Whole(3) + 1, Whole(4)>>

\* the phase each stage of the pipeline completes (line 608)
Phases ==
    <<"busca_massiva", "analise_viral", "sintese_ia", "analise_preditiva",
      "geracao_modulos">>

\* line 418: min(self.current_step, len(self.steps) - 1)
MessageIndex(current_step) ==
    IF current_step < Whole(NumStepMessages - 1)
    THEN current_step
    ELSE Whole(NumStepMessages - 1)

\* lines 410-424: get_current_status; self.steps[i] raises TypeError when i
\* is not an int
GetCurrentStatus(t) ==
    IF IsInt(MessageIndex(t.current_step))
    THEN [raised |-> FALSE,
          status |-> [current_step |-> t.current_step,
                      current_message |-> MessageIndex(t.current_step) \div Halves,
                      is_complete |-> t.current_step >= Whole(TotalSteps)]]
    ELSE [raised |-> TRUE, status |-> [none |-> TRUE]]

\* lines 426-433: _save_to_disk; open() has emptied the file when
\* get_current_status raises
SaveToDisk(t) ==
    IF GetCurrentStatus(t).raised
    THEN [tracker |-> [t EXCEPT !.on_disk = [none |-> TRUE]], raised |-> TRUE]
    ELSE [tracker |-> [t EXCEPT !.on_disk = GetCurrentStatus(t).status],
          raised |-> FALSE]

\* lines 362-383: LocalProgressTracker.__init__
NewTracker ==
    SaveToDisk([current_step |-> 0, detailed_logs |-> <<>>,
                on_disk |-> [none |-> TRUE]]).tracker

\* lines 385-403: update_progress
UpdateProgress(t, step) ==
    SaveToDisk([t EXCEPT !.current_step = step,
                         !.detailed_logs = Append(@, step)])

\* lines 405-408: complete
Complete(t) ==
    LET u == UpdateProgress(t, Whole(TotalSteps))
    IN IF u.raised THEN u ELSE SaveToDisk(u.tracker)

\* lines 471-553: a request arrives; the route registers the tracker of its
\* new session (line 530) and enters execute_enhanced_analysis
CallExecuteCompleteAnalysis(s) ==
    /\ analysis[s].pc = "idle"
    /\ \A r \in 1..(s - 1) : analysis[r].pc # "idle"
    /\ local_progress_sessions' = [local_progress_sessions EXCEPT ![s] = NewTracker]
    /\ analysis' = [analysis EXCEPT ![s] = [@ EXCEPT !.pc = "callback", !.stage = 1]]
    /\ UNCHANGED <<mgrVars, keyHist, invVars, aggVars, stub, caller_stats, adapter_call>>

\* lines 616-630: execute_enhanced_analysis returns and the route calls
\* progress_tracker.complete()
ReturnFromAnalysis(s, t, success, error_type, stage_failed) ==
    /\ local_progress_sessions' =
           [local_progress_sessions EXCEPT ![s] = Complete(t).tracker]
    /\ analysis' = [analysis EXCEPT ![s] =
           [@ EXCEPT !.pc = IF Complete(t).raised THEN "raised" ELSE "returned",
                     !.success = success, !.error_type = error_type,
                     !.stage_failed = stage_failed]]

\* lines 531-539 called from lines 555-590: progress_callback with the step
\* number of the stage about to run; an exception goes to the handler of
\* line 616, which returns the failure dict
ProgressCallback(s) ==
    /\ analysis[s].pc = "callback"
    /\ LET u == UpdateProgress(local_progress_sessions[s],
                               PipelineSteps[analysis[s].stage])
       IN IF u.raised
          THEN ReturnFromAnalysis(s, u.tracker, FALSE, "TypeError", FALSE)
          ELSE /\ local_progress_sessions' =
                      [local_progress_sessions EXCEPT ![s] = u.tracker]
               /\ analysis' = [analysis EXCEPT ![s].pc = "stage"]
    /\ UNCHANGED <<mgrVars, keyHist, invVars, aggVars, stub, caller_stats, adapter_call>>

\* lines 556-601: the external stage the pipeline waits for returns (and
\* its result passes the validation that follows it), or an exception is
\* raised; after the last stage the success dict is returned
StageEnds(s, ok) ==
    /\ analysis[s].pc = "stage"
    /\ IF ~ok
       THEN ReturnFromAnalysis(s, local_progress_sessions[s], FALSE, "Exception", TRUE)
       ELSE IF analysis[s].stage = Len(PipelineSteps)
       THEN ReturnFromAnalysis(s, local_progress_sessions[s], TRUE, "", FALSE)
       ELSE /\ analysis' = [analysis EXCEPT ![s] =
                               [@ EXCEPT !.pc = "callback", !.stage = @ + 1]]
            /\ UNCHANGED local_progress_sessions
    /\ UNCHANGED <<mgrVars, keyHist, invVars, aggVars, stub, caller_stats, adapter_call>>

(***************************************************************************)
(* SpecKeys: the rotation store under direct calls, from every environment *)
(* with at most MaxEnvVars credential variables set.                       *)
(***************************************************************************)
EnvSize(e) == LET RECURSIVE Sum(_)
                  Sum(k) == IF k = 0 THEN 0
                            ELSE Cardinality(e[Providers[k]]) + Sum(k - 1)
              IN Sum(Len(Providers))

InitKeys ==
    \E e \in [ProviderSet -> SUBSET Suffixes] :
        /\ EnvSize(e) <= MaxEnvVars
        /\ Construct(e, FALSE)
    /\ stub = NoStub

NextKeys == \E p \in ProviderSet \cup {Unknown} : CallGetNextApiKey(p)

SpecKeys == InitKeys /\ [][NextKeys]_vars

(***************************************************************************)
(* SpecSearch: one interleaved_search call on a fresh manager, from every  *)
(* environment in which each provider has no credential or one, with       *)
(* responses of at most MaxItems items, MaxTotalItems in all.              *)
(***************************************************************************)
\* the number of items in the results the adapters of invocation i returned
ItemsReturned(i) ==
    LET RECURSIVE Sum(_)
        Sum(k) == IF k = 0 THEN 0
                  ELSE Len(ResultItems(result[i][Providers[k]])) + Sum(k - 1)
    IN Sum(Len(Providers))

InitSearch ==
    \E e \in [ProviderSet -> {{}, {0}}], cse \in BOOLEAN : Construct(e, cse)
    /\ stub = NoStub

NextSearch ==
    \/ nruns = 0 /\ CallInterleavedSearch(1)
    \/ StartAdapter(1)
    \/ \E p \in NetworkProviders, resp \in Responses(MaxItems) :
           /\ ItemsReturned(1) + Len(resp.items) <= MaxTotalItems
           /\ CompleteAdapter(1, p, resp)
    \/ JoinInterleavedSearch(1)

SpecSearch == InitSearch /\ [][NextSearch]_vars

(***************************************************************************)
(* Spec: one manager used by several callers on the same event loop:       *)
(* direct get_next_api_key calls and up to MaxInv invocations of            *)
(* interleaved_search or execute_massive_search_with_websailor in flight   *)
(* at once, MaxRuns calls in all.                                          *)
(***************************************************************************)
Init ==
    \E e \in [ProviderSet -> SUBSET Suffixes], cse \in BOOLEAN :
        /\ EnvSize(e) <= MaxEnvShared
        /\ Construct(e, cse)
    /\ stub = NoStub

\* a new call is followed in the lowest slot that is free
NextSlot(i) == SlotFree(i) /\ \A j \in 1..(i - 1) : ~SlotFree(j)

\* Spec follows the state the callers share (cursors and statistics), which
\* an adapter changes the same way whatever makes it fail and which the
\* collaborators of the aggregator never touch: the network answers with an
\* empty 200 response or an exception, and the collaborators return empty
\* results.  SpecSearch explores the responses.
SharedResponses == {r \in Responses(0) : r.kind # "status"}

QuietNav == [kind |-> "ok", pages |-> 0]

QuietSocial ==
    [kind |-> "ok", social_content |-> <<>>, screenshots |-> <<>>,
     images_extracted |-> <<>>]

QuietLeads == [import_ok |-> TRUE, extract |-> [u \in UrlValues |-> 0], save_ok |-> TRUE]

Next ==
    \/ \E p \in ProviderSet \cup {Unknown} : ncalls < MaxDirect /\ CallGetNextApiKey(p)
    \/ \E i \in Invs : nruns < MaxRuns /\ NextSlot(i) /\ CallInterleavedSearch(i)
    \/ \E i \in Invs : nruns < MaxRuns /\ NextSlot(i) /\ CallMassiveSearch(i, QuietNav)
    \/ \E i \in Invs : StartAdapter(i)
    \/ \E i \in Invs, p \in NetworkProviders, resp \in SharedResponses :
           CompleteAdapter(i, p, resp)
    \/ \E i \in Invs : JoinInterleavedSearch(i)
    \/ \E i \in Invs : JoinMassiveSearch(i, QuietNav)
    \/ \E i \in Invs : FinishMassiveSearch(i, QuietSocial, QuietLeads)

Spec == Init /\ [][Next]_vars

(***************************************************************************)
(* SpecMassive: one execute_massive_search_with_websailor call on a fresh  *)
(* manager with at most MaxEnvMassive providers configured (one credential *)
(* each), over the outcomes of the adapters and of the collaborators.      *)
(***************************************************************************)
InitMassive ==
    \E e \in [ProviderSet -> {{}, {0}}], cse \in BOOLEAN :
        /\ EnvSize(e) <= MaxEnvMassive
        /\ Construct(e, cse)
    /\ stub = NoStub

NextMassive ==
    \/ \E nav \in NavOutcomes(MaxPages) : nruns = 0 /\ CallMassiveSearch(1, nav)
    \/ StartAdapter(1)
    \/ \E p \in NetworkProviders, resp \in Responses(MaxItemsMassive) :
           CompleteAdapter(1, p, resp)
    \/ \E nav \in NavOutcomes(MaxPages) : JoinMassiveSearch(1, nav)
    \/ /\ mpc[1] = "social"
       /\ \E soc \in SocialOutcomes(MaxPosts) :
              \E ld \in LeadOutcomes(ItemUrls(massive_results[1]), MaxLeads) :
                  FinishMassiveSearch(1, soc, ld)

SpecMassive == InitMassive /\ [][NextMassive]_vars

(***************************************************************************)
(* SpecAdapter: up to MaxAdapterCalls adapters awaited one after the other *)
(* outside interleaved_search, from every environment in which each        *)
(* provider has no credential or one.                                      *)
(***************************************************************************)
InitAdapter ==
    \E e \in [ProviderSet -> {{}, {0}}], cse \in BOOLEAN : Construct(e, cse)
    /\ stub = NoStub

NextAdapter ==
    \/ \E p \in ProviderSet : adapter_call.calls < MaxAdapterCalls /\ CallAdapter(p)
    \/ \E resp \in Responses(MaxItems) : ReturnAdapter(resp)

SpecAdapter == InitAdapter /\ [][NextAdapter]_vars

(***************************************************************************)
(* SpecCaller: a caller that draws credentials, reads the statistics with  *)
(* get_provider_stats and changes the dict it got.                         *)
(***************************************************************************)
InitCaller ==
    \E e \in [ProviderSet -> SUBSET Suffixes] :
        /\ EnvSize(e) <= MaxEnvCaller
        /\ Construct(e, FALSE)
    /\ stub = NoStub

Counters == {"requests", "successes", "failures"}

NextCaller ==
    \/ \E p \in ProviderSet : ncalls < MaxCallerCalls /\ CallGetNextApiKey(p)
    \/ CallGetProviderStats
    \/ \E p \in ProviderSet : caller_stats.writes < MaxCallerWrites /\ CallerDropsEntry(p)
    \/ \E p \in ProviderSet, c \in Counters, v \in 0..MaxCallerValue :
           caller_stats.writes < MaxCallerWrites /\ CallerSetsCounter(p, c, v)

SpecCaller == InitCaller /\ [][NextCaller]_vars

(***************************************************************************)
(* SpecTwice: execute_massive_search_with_websailor called twice, one call *)
(* after the other, on one manager whose network and collaborators are     *)
(* deterministic test doubles: each backend gives the same response to     *)
(* every request, the responses arrive in a fixed order, and each          *)
(* collaborator does the same in every call.                               *)
(***************************************************************************)
\* the orders in which the requests to the backends of set S can be answered
Orders(S) == {o \in SeqsUpTo(S, Cardinality(S)) :
                 Len(o) = Cardinality(S) /\ \A p \in S : InSeq(p, o)}

\* what the social extractor double does (the list of posts is what counts
\* as sources)
StubSocial ==
    {soc \in SocialOutcomes(MaxPosts) :
        soc.screenshots = <<>> /\ soc.images_extracted = <<>>}

\* what the lead doubles do
StubLeads == {QuietLeads, [QuietLeads EXCEPT !.import_ok = FALSE]}

\* the doubles for a manager with credentials api_keys
Stubs(keys) ==
    [resp : [NetworkProviders \cap DOMAIN keys -> Responses(MaxItemsMassive)],
     order : Orders(NetworkProviders \cap DOMAIN keys),
     nav : NavOutcomes(MaxPages),
     soc : StubSocial,
     leads : StubLeads]

InitTwice ==
    \E e \in [ProviderSet -> {{}, {0}, {0, 1}}], cse \in BOOLEAN :
        /\ EnvSize(e) <= MaxEnvTwice
        /\ Construct(e, cse)
        /\ stub \in Stubs(LoadApiKeys(e))

\* the request of p is the next of invocation i to be answered
NextToComplete(i, p) ==
    /\ task[i][p] = "net"
    /\ \A k \in 1..Len(stub.order) :
           stub.order[k] = p =>
               \A j \in 1..(k - 1) : task[i][stub.order[j]] # "net"

NextTwice ==
    \/ nruns = 0 /\ CallMassiveSearch(1, stub.nav)
    \/ nruns = 1 /\ mpc[1] = "returned" /\ CallMassiveSearch(2, stub.nav)
    \/ \E i \in Invs : StartAdapter(i)
    \/ \E i \in Invs, p \in NetworkProviders :
           /\ pc[i] = "gather"
           /\ NextToComplete(i, p)
           /\ CompleteAdapter(i, p, stub.resp[p])
    \/ \E i \in Invs : JoinMassiveSearch(i, stub.nav)
    \/ \E i \in Invs : FinishMassiveSearch(i, stub.soc, stub.leads)

SpecTwice == InitTwice /\ [][NextTwice]_vars

(***************************************************************************)
(* SpecLive: one aggregator run as in SpecMassive, on an event loop that   *)
(* runs every task that is ready, with backends and collaborators that     *)
(* answer every call, by returning or by raising.  What is returned is     *)
(* taken from the outcomes that differ in how the run goes on: empty       *)
(* responses, and the doubles of SpecTwice.                                *)
(***************************************************************************)
NextLive ==
    \/ \E nav \in NavOutcomes(MaxPages) : nruns = 0 /\ CallMassiveSearch(1, nav)
    \/ StartAdapter(1)
    \/ \E p \in NetworkProviders, resp \in Responses(0) : CompleteAdapter(1, p, resp)
    \/ \E nav \in NavOutcomes(MaxPages) : JoinMassiveSearch(1, nav)
    \/ \E soc \in StubSocial, ld \in StubLeads : FinishMassiveSearch(1, soc, ld)

\* the event loop runs a task that is ready; a request is answered; gather
\* resumes the coordinator once the tasks are done (the navigation call
\* answers); the social extractor answers (and the lead functions do)
Fairness ==
    /\ WF_vars(StartAdapter(1))
    /\ WF_vars(\E p \in NetworkProviders, resp \in Responses(0) :
                   CompleteAdapter(1, p, resp))
    /\ WF_vars(\E nav \in NavOutcomes(MaxPages) : JoinMassiveSearch(1, nav))
    /\ WF_vars(\E soc \in StubSocial, ld \in StubLeads : FinishMassiveSearch(1, soc, ld))

SpecLive == InitMassive /\ [][NextLive]_vars /\ Fairness

(***************************************************************************)
(* SpecAnalysis: up to MaxSessions execute_complete_analysis requests, each *)
(* with its own session, served side by side; every external stage        *)
(* returns or raises.                                                      *)
(***************************************************************************)
InitAnalysis ==
    /\ Construct([p \in ProviderSet |-> {}], FALSE)
    /\ stub = NoStub

NextAnalysis ==
    \/ \E s \in Sessions : CallExecuteCompleteAnalysis(s)
    \/ \E s \in Sessions : ProgressCallback(s)
    \/ \E s \in Sessions, ok \in BOOLEAN : StageEnds(s, ok)

SpecAnalysis == InitAnalysis /\ [][NextAnalysis]_vars

(***************************************************************************)
(* Properties of the rotation store.                                       *)
(***************************************************************************)
\* number of positions of seq holding x
Occurrences(seq, x) == Cardinality({n \in 1..Len(seq) : seq[n] = x})

\* the position (1-based) of key x in pool keys
SlotOf(keys, x) == CHOOSE k \in 1..Len(keys) : keys[k] = x

\* the key that follows x cyclically in pool order
Successor(keys, x) == keys[(SlotOf(keys, x) % Len(keys)) + 1]

\* C1: on a fresh manager, after N calls of get_next_api_key(p) for a
\* provider with P >= 1 credentials, every credential of the pool has been
\* returned floor(N/P) or ceil(N/P) times, every call after the first has
\* returned the credential that cyclically follows the one returned before
\* it, and so will the (N+1)-th call.
C1_RoundRobin ==
    \A p \in DOMAIN api_keys :
        LET keys == api_keys[p]
            P == Len(keys)
            N == Len(returned[p])
        IN P >= 1 =>
            /\ \A k \in 1..P :
                   Occurrences(returned[p], keys[k]) \in {N \div P, (N + P - 1) \div P}
            /\ \A n \in 1..(N - 1) :
                   returned[p][n + 1] = Successor(keys, returned[p][n])
            /\ N >= 1 => NextApiKey(p) = Successor(keys, returned[p][N])

\* a pool of three credentials has been asked four times
C1_Witness ==
    \E p \in DOMAIN api_keys : Len(api_keys[p]) = 3 /\ Len(returned[p]) = 4

\* C2: one get_next_api_key(p) call on a provider with a non-empty pool
\* returns the credential stored at the cursor, moves the cursor to
\* (cursor + 1) mod pool_size and leaves every other provider's cursor alone.
C2_SingleCall ==
    [][\A p \in ProviderSet :
          (Len(returned'[p]) = Len(returned[p]) + 1 /\ ~NoKey(p)) =>
              /\ returned'[p][Len(returned'[p])] = api_keys[p][key_indices[p] + 1]
              /\ key_indices'[p] = (key_indices[p] + 1) % Len(api_keys[p])
              /\ DOMAIN key_indices' = DOMAIN key_indices
              /\ \A q \in DOMAIN key_indices \ {p} : key_indices'[q] = key_indices[q]
      ]_vars

\* a pool of two credentials has been asked twice and its cursor is back at
\* 0, after another configured provider has been asked once
C2_Witness ==
    \E p, q \in DOMAIN api_keys :
        /\ p # q
        /\ Len(api_keys[p]) = 2 /\ Len(returned[p]) = 2 /\ key_indices[p] = 0
        /\ Len(returned[q]) = 1

\* C4: for a provider with no configured credential, and for a provider
\* name the manager does not know, every get_next_api_key call has returned
\* None and the next one will.
C4_AbsentForUnconfigured ==
    \A p \in ProviderSet \cup {Unknown} :
        NoKey(p) =>
            /\ \A n \in 1..Len(returned[p]) : returned[p][n] = None
            /\ NextApiKey(p) = None

\* the unknown provider and an unconfigured one have both been asked, after
\* a configured provider has handed out a credential
C4_Witness ==
    /\ Len(returned[Unknown]) >= 1
    /\ \E p \in ProviderSet \ DOMAIN api_keys : Len(returned[p]) >= 2
    /\ \E q \in DOMAIN api_keys : Len(returned[q]) >= 1

\* C3: in every reachable state of a manager used through get_next_api_key
\* and (overlapping) interleaved_search calls, every registered provider has
\* a non-empty pool and a cursor with 0 <= cursor < pool_size, and a
\* provider for which no credential could be loaded has neither a pool nor
\* a cursor.
C3_CursorInRange ==
    /\ DOMAIN key_indices = DOMAIN api_keys
    /\ \A p \in DOMAIN api_keys :
           /\ Len(api_keys[p]) >= 1
           /\ 0 <= key_indices[p]
           /\ key_indices[p] < Len(api_keys[p])
    /\ \A p \in ProviderSet :
           (0 \notin env[p] /\ 1 \notin env[p]) => p \notin DOMAIN api_keys

\* a search and an aggregator run are in flight together, a cursor of a
\* two-key pool has gone round once, and a provider that is not configured
\* has been asked for a key
C3_Witness ==
    /\ pc[1] = "gather" /\ pc[2] = "gather"
    /\ mpc[1] = "none" /\ mpc[2] = "api"
    /\ \E p \in DOMAIN api_keys :
           Len(api_keys[p]) = 2 /\ Len(returned[p]) >= 2 /\ key_indices[p] = 0
    /\ \E q \in ProviderSet : q \notin DOMAIN api_keys /\ Len(returned[q]) >= 1

(***************************************************************************)
(* Properties of interleaved_search, stated for invocation 1.              *)
(***************************************************************************)
\* the providers an adapter was launched for
Launched(i) == {search_tasks[i][k] : k \in 1..Len(search_tasks[i])}

\* the adapter of p returned a success dict
ReturnedSuccess(i, p) ==
    /\ "success" \in DOMAIN result[i][p]
    /\ result[i][p].success = TRUE

Succeeded(i) == {p \in Launched(i) : ReturnedSuccess(i, p)}

\* interleaved_search has ended: it returned, or an exception left it
Ended(i) == pc[i] \in {"done", "raised"}

\* the url fields of the items of p's success dict, in result order
UrlsOfResult(i, p) ==
    [k \in 1..Len(result[i][p].results) |-> result[i][p].results[k].url]

\* the non-empty URLs carried by the items of the successful providers
DistinctUrls(i) ==
    UNION {{UrlsOfResult(i, p)[k] : k \in 1..Len(UrlsOfResult(i, p))} :
              p \in Succeeded(i)} \ {""}

\* C5: interleaved_search returns successful_searches = number of launched
\* adapters that returned a success dict, failed_searches = number that
\* returned a failure dict (an exception inside an adapter arrives as one),
\* and as many consolidated_urls as there are distinct URLs in the items of
\* the successful providers (an item whose url field is empty carries none).
C5_Counts ==
    Ended(1) =>
        /\ pc[1] = "done"
        /\ search_results[1].successful_searches = Cardinality(Succeeded(1))
        /\ search_results[1].failed_searches =
               Cardinality(Launched(1) \ Succeeded(1))
        /\ Len(search_results[1].consolidated_urls) = Cardinality(DistinctUrls(1))

\* two providers succeeded with the same two URLs in different orders and a
\* third failed
C5_Witness ==
    /\ pc[1] = "done"
    /\ search_results[1].successful_searches = 2
    /\ search_results[1].failed_searches = 1
    /\ ReturnedSuccess(1, "SERPER") /\ ReturnedSuccess(1, "EXA")
    /\ UrlsOfResult(1, "SERPER") = <<"a", "b">>
    /\ UrlsOfResult(1, "EXA") = <<"b", "a">>
    /\ Len(search_results[1].consolidated_urls) = 2

\* C6: when every configured provider's adapter failed, interleaved_search
\* still returns: successful_searches = 0, failed_searches = number of
\* configured providers, all_results = [], consolidated_urls = [], and no
\* exception leaves it.
C6_AllFailed ==
    (Ended(1) /\ Succeeded(1) = {}) =>
        /\ pc[1] = "done"
        /\ search_results[1].successful_searches = 0
        /\ search_results[1].failed_searches = Cardinality(DOMAIN api_keys)
        /\ search_results[1].all_results = <<>>
        /\ search_results[1].consolidated_urls = <<>>

\* three providers are configured and all failed: one by an exception, one
\* by a status code, one without a request
C6_Witness ==
    /\ pc[1] = "done"
    /\ DOMAIN api_keys = {"SERPER", "GOOGLE", "EXA"}
    /\ ~cse_id
    /\ result[1]["SERPER"] = Failure("exception")
    /\ result[1]["EXA"] = Failure("HTTP status")
    /\ search_results[1].failed_searches = 3

\* C7: an adapter is launched only for a provider with at least one
\* credential.  A provider without credentials is skipped: no adapter
\* coroutine exists for it, it is never asked for a key, it has no result and
\* no statistics entry, and the two counters of the outcome count launched
\* adapters only.
C7_SkipUnconfigured ==
    /\ \A p \in Launched(1) : p \in DOMAIN api_keys /\ Len(api_keys[p]) >= 1
    /\ \A p \in ProviderSet \ DOMAIN api_keys :
           /\ p \notin Launched(1)
           /\ task[1][p] = "none"
           /\ result[1][p] = NoResult
           /\ ~InSeq(p, completed[1])
           /\ returned[p] = <<>>
           /\ p \notin DOMAIN provider_stats
    /\ Ended(1) =>
           search_results[1].successful_searches + search_results[1].failed_searches
               = Cardinality(Launched(1))

\* a search has returned on a manager with two configured and three
\* unconfigured providers
C7_Witness ==
    /\ pc[1] = "done"
    /\ Cardinality(DOMAIN api_keys) = 2
    /\ search_results[1].successful_searches = 1
    /\ search_results[1].failed_searches = 1

RECURSIVE UrlStream(_, _)
\* the url fields in the order the coordinator's loop reads them: results
\* in processing order from the k-th on, items in result order
UrlStream(i, k) ==
    IF k > Len(search_tasks[i]) THEN <<>>
    ELSE (IF ReturnedSuccess(i, search_tasks[i][k])
          THEN UrlsOfResult(i, search_tasks[i][k]) ELSE <<>>)
         \o UrlStream(i, k + 1)

\* the first position of x in seq
FirstPos(seq, x) ==
    CHOOSE n \in 1..Len(seq) : seq[n] = x /\ \A m \in 1..(n - 1) : seq[m] # x

\* C8: consolidated_urls never holds one URL twice, holds only URLs of
\* processed items, and is in first-seen order: u stands before v exactly
\* when the first item carrying u is read before the first item carrying v.
C8_FirstSeenOrder ==
    pc[1] = "done" =>
        LET urls == search_results[1].consolidated_urls
            stream == UrlStream(1, 1)
        IN /\ \A a, b \in 1..Len(urls) : a # b => urls[a] # urls[b]
           /\ \A a \in 1..Len(urls) : InSeq(urls[a], stream)
           /\ \A a, b \in 1..Len(urls) :
                  a < b <=> FirstPos(stream, urls[a]) < FirstPos(stream, urls[b])

\* the stream b, "", a, b gives the list b, a
C8_Witness ==
    /\ pc[1] = "done"
    /\ UrlStream(1, 1) = <<"b", "", "a", "b">>
    /\ search_results[1].consolidated_urls = <<"b", "a">>

\* the providers of all_results, in list order
RetainedProviders(i) ==
    [k \in 1..Len(search_results[i].all_results) |->
        search_results[i].all_results[k].provider]

\* C9 as stated: the providers stand in all_results in the order their
\* adapter tasks completed.
C9_CompletionOrder ==
    pc[1] = "done" =>
        RetainedProviders(1) = SelectSeq(completed[1], LAMBDA p : ReturnedSuccess(1, p))

\* C9 amended: the providers stand in all_results in the order their
\* adapters were launched (SERPER, GOOGLE, EXA, FIRECRAWL, JINA), whatever
\* the order the tasks completed in.
C9_LaunchOrder ==
    pc[1] = "done" =>
        RetainedProviders(1) = SelectSeq(Providers, LAMBDA p : p \in Succeeded(1))

\* EXA's task completed before SERPER's and both succeeded
C9_Witness ==
    /\ pc[1] = "done"
    /\ ReturnedSuccess(1, "SERPER") /\ ReturnedSuccess(1, "EXA")
    /\ FirstPos(completed[1], "EXA") < FirstPos(completed[1], "SERPER")

\* C10: all_results holds success dicts only, each with a provider name,
\* exactly one per successful provider (the dict its adapter returned), so
\* its length is successful_searches; no failure dict is retained.
C10_OnlySuccesses ==
    pc[1] = "done" =>
        LET all == search_results[1].all_results
        IN /\ \A k \in 1..Len(all) :
                  /\ "success" \in DOMAIN all[k] /\ all[k].success = TRUE
                  /\ "provider" \in DOMAIN all[k]
                  /\ all[k].provider \in Succeeded(1)
                  /\ all[k] = result[1][all[k].provider]
           /\ \A p \in Succeeded(1) :
                  Cardinality({k \in 1..Len(all) : all[k] = result[1][p]}) = 1
           /\ Len(all) = search_results[1].successful_searches
           /\ Len(all) = Cardinality(Succeeded(1))

\* three successes (one of them without items) are retained and two
\* failures are not
C10_Witness ==
    /\ pc[1] = "done"
    /\ Len(search_results[1].all_results) = 3
    /\ search_results[1].failed_searches = 2
    /\ ReturnedSuccess(1, "JINA")

\* the outcome of invocation i had the adapter of f succeeded with no items,
\* on a manager used for nothing else
HadSucceeded(i, f) ==
    ProcessResults(
        [sr |-> NewSearchResults,
         stats |-> [p \in DOMAIN provider_stats |->
                       [provider_stats[p] EXCEPT !.successes = 0, !.failures = 0]],
         raised |-> FALSE],
        search_tasks[i],
        [k \in 1..Len(search_tasks[i]) |->
            IF search_tasks[i][k] = f THEN Success(f, <<>>)
            ELSE result[i][search_tasks[i][k]]],
        1)

\* C11: when interleaved_search has ended, every launched adapter has run
\* to completion and returned a result (none is cancelled or left pending),
\* and for every adapter that failed, raised or timed out the outcome is the
\* one that would have been computed had it succeeded with no items, but for
\* its own entry: the same other results in all_results in the same order,
\* the same consolidated_urls, the same counters for every other provider.
C11_FailureIsolation ==
    Ended(1) =>
        /\ pc[1] = "done"
        /\ \A p \in Launched(1) :
               /\ task[1][p] = "done"
               /\ result[1][p] # NoResult
               /\ InSeq(p, completed[1])
        /\ \A f \in Launched(1) \ Succeeded(1) :
               LET alt == HadSucceeded(1, f)
               IN /\ search_results[1].all_results =
                         SelectSeq(alt.sr.all_results, LAMBDA r : r.provider # f)
                  /\ search_results[1].consolidated_urls = alt.sr.consolidated_urls
                  /\ search_results[1].successful_searches =
                         alt.sr.successful_searches - 1
                  /\ search_results[1].failed_searches = alt.sr.failed_searches + 1
                  /\ \A q \in Launched(1) \ {f} : provider_stats[q] = alt.stats[q]

\* SERPER's request raised (a timeout) before the other two adapters had
\* finished; GOOGLE and EXA then succeeded with URLs
C11_Witness ==
    /\ pc[1] = "done"
    /\ result[1]["SERPER"] = Failure("exception")
    /\ completed[1][1] = "SERPER"
    /\ ReturnedSuccess(1, "GOOGLE") /\ ReturnedSuccess(1, "EXA")
    /\ UrlsOfResult(1, "GOOGLE") = <<"a">>
    /\ UrlsOfResult(1, "EXA") = <<"b">>
    /\ search_results[1].consolidated_urls = <<"a", "b">>

(***************************************************************************)
(* Properties of a manager shared by overlapping invocations.              *)
(***************************************************************************)
\* the invocations whose interleaved_search is suspended in gather
InFlight == {i \in Invs : pc[i] = "gather"}

\* C12: whatever the interleaving of direct calls and of the adapters of
\* overlapping invocations, the n-th credential request of a provider with
\* P keys is handed position (n - 1) mod P of the pool: consecutive
\* positions of the cycle, none skipped and none issued twice in a lap, and
\* the cursor stands at n mod P after n requests.
C12_AtomicAdvance ==
    \A p \in DOMAIN api_keys :
        LET keys == api_keys[p]
            P == Len(keys)
        IN /\ \A n \in 1..Len(returned[p]) :
                  returned[p][n] = keys[((n - 1) % P) + 1]
           /\ key_indices[p] = Len(returned[p]) % P

\* two invocations are in flight together, each has started its adapter of
\* a provider with two keys, and a direct call drew from the same pool
C12_Witness ==
    /\ InFlight = {1, 2}
    /\ ncalls = 1
    /\ \E p \in DOMAIN api_keys :
           /\ Len(api_keys[p]) = 2
           /\ Len(returned[p]) = 3
           /\ task[1][p] # "new" /\ task[2][p] # "new"

\* C13: when no interleaved_search is in flight on the manager, after m
\* invocations (overlapping or not) every configured provider's successes +
\* failures is m and its requests counter is m plus the direct
\* get_next_api_key calls made for it: every credential handed out was
\* counted once, so requests is m when no direct call was made and at most
\* m + (number of direct calls) otherwise.
C13_NoLostUpdates ==
    InFlight = {} =>
        \A p \in DOMAIN api_keys :
            LET st == IF p \in DOMAIN provider_stats THEN provider_stats[p]
                      ELSE [requests |-> 0, successes |-> 0, failures |-> 0]
            IN /\ st.successes + st.failures = nruns
               /\ st.requests = Len(returned[p])
               /\ st.requests >= nruns
               /\ st.requests <= nruns + ncalls
               /\ ncalls = 0 => st.requests = nruns

\* two invocations overlapped (the second slot is used only while the first
\* is busy) and both have returned; a provider succeeded in one and failed
\* in the other
C13_Witness ==
    /\ pc[1] = "done" /\ pc[2] = "done"
    /\ nruns = 2
    /\ \E p \in DOMAIN api_keys :
           /\ provider_stats[p].requests = 2
           /\ provider_stats[p].successes = 1
           /\ provider_stats[p].failures = 1

(***************************************************************************)
(* Properties of execute_massive_search_with_websailor, stated for         *)
(* invocation 1.                                                           *)
(***************************************************************************)
\* the aggregator has returned massive_results to its caller
HasReturned(i) == mpc[i] = "returned"

\* the event is in the stage log of run i
Logged(i, event) == InSeq(event, stage_log[i])

\* x is a stage's inline error marker
IsErrorMarker(x) == "error" \in DOMAIN x

\* the returned dict carries the top-level error field
HasErrorField(i) == "error" \in DOMAIN massive_results[i]

\* total_sources is the sum of the three counts, all of them numbers
TotalIsSum(st) ==
    /\ st.websailor_pages # None
    /\ st.total_sources = st.api_sources + st.websailor_pages + st.social_posts

\* C14: no exception leaves execute_massive_search_with_websailor, whatever
\* the adapters, the navigation, the social extraction, the lead extraction
\* and the lead persistence do (return, return a malformed value, raise):
\* when the run has ended it has returned a dict with every field it was
\* created with.
C14_NeverRaises ==
    /\ mpc[1] # "raised"
    /\ HasReturned(1) =>
           /\ DOMAIN NewMassiveResults \subseteq DOMAIN massive_results[1]
           /\ DOMAIN NewMassiveResults.statistics
                  \subseteq DOMAIN massive_results[1].statistics
           /\ massive_results[1].statistics.search_duration = Elapsed

\* a run in which every adapter failed, the navigation, the social
\* extraction and the lead stage raised has returned; so has one that
\* ended in the handler of line 490
C14_Witness ==
    /\ HasReturned(1)
    /\ search_results[1].failed_searches = 2
    /\ Logged(1, "navigation_failed")
    /\ Logged(1, "social_failed")
    /\ Logged(1, "leads_failed")
    /\ Logged(1, "finalize")

\* C15: every returned result has total_sources = api_sources +
\* websailor_pages + social_posts.
C15_TotalIsSum ==
    HasReturned(1) => TotalIsSum(massive_results[1].statistics)

\* C16: when the navigation stage raised, the returned result holds the
\* coordinator's all_results and consolidated_urls, an error marker in
\* websailor_results (and in no other stage's field unless that stage
\* failed too), websailor_pages = 0 and no top-level error field.
C16_NavFailureIsolated ==
    (HasReturned(1) /\ Logged(1, "navigation_failed")) =>
        LET mr == massive_results[1]
        IN /\ mr.api_results = search_results[1].all_results
           /\ mr.statistics.api_sources = Len(search_results[1].all_results)
           /\ mr.consolidated_urls = search_results[1].consolidated_urls
           /\ IsErrorMarker(mr.websailor_results)
           /\ mr.statistics.websailor_pages = 0
           /\ ~Logged(1, "social_failed") => ~IsErrorMarker(mr.social_results)
           /\ ~HasErrorField(1)

\* the navigation raised in a run whose API stage retained a result with a
\* URL and whose social stage found a post
C16_Witness ==
    /\ HasReturned(1)
    /\ massive_results[1].websailor_results = ErrorMarker("raise")
    /\ massive_results[1].consolidated_urls = <<"a">>
    /\ massive_results[1].statistics.api_sources = 1
    /\ massive_results[1].statistics.social_posts = 1
    /\ massive_results[1].statistics.total_sources = 2

\* the stage failures recorded in the log of run i
FailedStages(i) ==
    {e \in {"navigation_failed", "social_failed", "leads_failed"} : Logged(i, e)}

\* C17: after the navigation stage failed the social extractor is still
\* called, and a run in which any stage failed still enters every later
\* stage and the finalization: the result has search_duration set and
\* total_sources computed (the sum itself can fail only on a page count
\* that is not a number, which a failed navigation never leaves).
C17_LaterStagesAttempted ==
    /\ (mpc[1] \in {"social", "returned"} /\ Logged(1, "navigation_failed"))
           => Logged(1, "social")
    /\ (HasReturned(1) /\ FailedStages(1) # {}) =>
           /\ Logged(1, "social") /\ Logged(1, "leads") /\ Logged(1, "finalize")
           /\ massive_results[1].statistics.search_duration = Elapsed
           /\ massive_results[1].statistics.websailor_pages # None
                  => TotalIsSum(massive_results[1].statistics)
           /\ Logged(1, "navigation_failed")
                  => TotalIsSum(massive_results[1].statistics)

\* the navigation failed, then the social extractor returned a post, a lead
\* was extracted and saved, and the totals were computed
C17_Witness ==
    /\ HasReturned(1)
    /\ FailedStages(1) = {"navigation_failed"}
    /\ massive_results[1].statistics.social_posts = 1
    /\ Len(lead_calls[1].saved) = 1
    /\ massive_results[1].statistics.leads_count = 1
    /\ massive_results[1].statistics.total_sources = 2

\* C18: whenever social_results is an error marker in the returned result,
\* social_posts, screenshots_count and images_count are 0 and
\* viral_content, screenshots_captured and images_extracted are empty.
C18_SocialFailureDefaults ==
    (HasReturned(1) /\ IsErrorMarker(massive_results[1].social_results)) =>
        LET mr == massive_results[1]
        IN /\ mr.statistics.social_posts = 0
           /\ mr.statistics.screenshots_count = 0
           /\ mr.statistics.images_count = 0
           /\ mr.viral_content = <<>>
           /\ mr.screenshots_captured = <<>>
           /\ mr.images_extracted = <<>>

\* the stages in the order the aggregator is to visit them
StageOrder == <<"api_search", "navigation", "social", "leads", "finalize">>

\* the stage entries of run i in the order they were logged
StagesEntered(i) ==
    SelectSeq(stage_log[i], LAMBDA e : e \in {StageOrder[k] : k \in 1..Len(StageOrder)})

\* C19: at every moment of a run the stages entered so far are an initial
\* part of api_search, navigation, social, leads, finalize, each entered
\* once; a failure is logged only for the stage entered last; the handler
\* of line 490 runs at most once, as the last step, and leaves the error
\* field; a run that returned without it entered all five stages.
C19_StageOrder ==
    mpc[1] # "none" =>
        LET log == stage_log[1]
            n == Len(StagesEntered(1))
        IN /\ n >= 1 /\ n <= Len(StageOrder)
           /\ StagesEntered(1) = SubSeq(StageOrder, 1, n)
           /\ \A k \in 1..Len(log) :
                  /\ log[k] = "navigation_failed" => (k > 1 /\ log[k - 1] = "navigation")
                  /\ log[k] = "social_failed" => (k > 1 /\ log[k - 1] = "social")
                  /\ log[k] = "leads_failed" => (k > 1 /\ log[k - 1] = "leads")
                  /\ log[k] = "except" => (k = Len(log) /\ HasErrorField(1))
           /\ mpc[1] = "api" => log = <<"api_search">>
           /\ mpc[1] = "social" => log[Len(log)] = "social"
           /\ HasReturned(1) => log[Len(log)] \in {"finalize", "except"}
           /\ (HasReturned(1) /\ ~Logged(1, "except")) => n = Len(StageOrder)

\* a run went through the five stages with a failure in the second and in
\* the fourth
C19_Witness ==
    /\ HasReturned(1)
    /\ stage_log[1] = <<"api_search", "navigation", "navigation_failed", "social",
                        "leads", "leads_failed", "finalize">>

\* C20: the returned result carries the top-level error field exactly when
\* an exception was raised outside the stages' own handlers - by the
\* coordinator, or by the sum of line 477 on a page count that is not a
\* number; it then still has search_duration set and keeps what the stages
\* had stored.  Failures inside the navigation, social or leads stage never
\* set the field.
C20_ErrorFieldIffEscaped ==
    HasReturned(1) =>
        LET mr == massive_results[1]
        IN /\ HasErrorField(1) <=>
                  (pc[1] = "raised" \/ mr.statistics.websailor_pages = None)
           /\ HasErrorField(1) =>
                  /\ mr.statistics.search_duration = Elapsed
                  /\ pc[1] = "done" =>
                         /\ mr.api_results = search_results[1].all_results
                         /\ mr.statistics.api_sources = Len(search_results[1].all_results)
                         /\ mr.consolidated_urls = search_results[1].consolidated_urls
                  /\ Logged(1, "leads") => "leads_extracted" \in DOMAIN mr
                  /\ Logged(1, "social_failed") <=> IsErrorMarker(mr.social_results)
           /\ (FailedStages(1) # {} /\ mr.statistics.websailor_pages # None)
                  => ~HasErrorField(1)

\* the sum failed on a page count of None after the API stage had retained
\* a result, the social stage had failed and a lead had been extracted
C20_Witness ==
    /\ HasReturned(1)
    /\ HasErrorField(1)
    /\ Len(massive_results[1].api_results) = 1
    /\ Logged(1, "social_failed")
    /\ massive_results[1].statistics.leads_count = 1
    /\ massive_results[1].statistics.search_duration = Elapsed

\* a stage failed, no exception escaped and no error field was set
C20_WitnessStageOnly ==
    /\ HasReturned(1)
    /\ FailedStages(1) = {"social_failed", "leads_failed"}
    /\ ~HasErrorField(1)

(***************************************************************************)
(* Properties of the returned aggregate.                                   *)
(***************************************************************************)
\* the fields a consumer of the aggregate reads
ConsumerFields ==
    {"consolidated_urls", "viral_content", "screenshots_captured",
     "images_extracted", "leads_extracted"}

ConsumerStatistics == {"total_sources", "search_duration", "leads_count"}

\* C21: every aggregate execute_massive_search_with_websailor returns, on
\* the normal path and through the top-level handler alike, has the fields
\* consolidated_urls, viral_content, screenshots_captured, images_extracted,
\* leads_extracted and the statistics total_sources, search_duration and
\* leads_count.
C21_FullyPopulated ==
    HasReturned(1) =>
        /\ ConsumerFields \subseteq DOMAIN massive_results[1]
        /\ ConsumerStatistics \subseteq DOMAIN massive_results[1].statistics

\* C21 witness: a run returned through the top-level handler after the
\* leads stage had failed, and the aggregate has its lead fields
C21_Witness ==
    /\ HasReturned(1)
    /\ Logged(1, "except")
    /\ Logged(1, "leads_failed")
    /\ "error" \in DOMAIN massive_results[1]
    /\ massive_results[1].leads_extracted = <<>>
    /\ massive_results[1].statistics.leads_count = 0

\* C28: the consolidated_urls of the aggregate is, element for element, the
\* consolidated_urls of the interleaved_search outcome of stage 1.
C28_SameUrlList ==
    (mpc[1] \in {"social", "returned"} /\ Logged(1, "api_search") /\ pc[1] = "done") =>
        massive_results[1].consolidated_urls = search_results[1].consolidated_urls

\* C28 witness: two providers reported the same url and the aggregate holds
\* it once, as the coordinator's list does
C28_Witness ==
    /\ HasReturned(1)
    /\ search_results[1].successful_searches = 2
    /\ \A k \in 1..2 : Len(search_results[1].all_results[k].results) = 1
    /\ search_results[1].consolidated_urls = <<"a">>
    /\ massive_results[1].consolidated_urls = <<"a">>

\* C29: statistics.api_sources is the number of provider results the
\* coordinator retained (successful_searches = len(all_results)), whatever
\* the number of items or urls they brought; a provider that succeeded with
\* an empty list counts in total_sources.
C29_ApiSourcesCountsResults ==
    (mpc[1] \in {"social", "returned"} /\ pc[1] = "done") =>
        LET st == massive_results[1].statistics
        IN /\ st.api_sources = search_results[1].successful_searches
           /\ st.api_sources = Len(search_results[1].all_results)
           /\ (Logged(1, "finalize") /\ st.websailor_pages # None) =>
                  st.total_sources = Len(search_results[1].all_results)
                                     + st.websailor_pages + st.social_posts

\* C29 witness: the only retained result has no items, and the aggregate
\* counts one source and no url
C29_Witness ==
    /\ HasReturned(1)
    /\ Logged(1, "finalize")
    /\ Len(search_results[1].all_results) = 1
    /\ search_results[1].all_results[1].results = <<>>
    /\ massive_results[1].consolidated_urls = <<>>
    /\ massive_results[1].statistics.api_sources = 1
    /\ massive_results[1].statistics.total_sources = 1

RECURSIVE Flatten(_)
\* the concatenation of a list of lists
Flatten(lists) == IF lists = <<>> THEN <<>> ELSE Head(lists) \o Flatten(Tail(lists))

\* seq is an initial part of whole
IsPrefix(seq, whole) ==
    Len(seq) <= Len(whole) /\ \A k \in 1..Len(seq) : seq[k] = whole[k]

\* the items of the retained provider results, provider order then item order
AllItems(i) == Flatten([k \in 1..Len(massive_results[i].api_results) |->
                           massive_results[i].api_results[k].results])

\* C30 as stated: in the leads stage the extraction function is applied
\* once to every item of every successful provider result, in order,
\* leads_extracted is the concatenation of the lists it returned, and
\* leads_count = len(leads_extracted).
C30_EveryItemExtracted ==
    (HasReturned(1) /\ Logged(1, "leads")) =>
        /\ lead_calls[1].extracted = AllItems(1)
        /\ massive_results[1].leads_extracted = Flatten(lead_calls[1].returned)
        /\ massive_results[1].statistics.leads_count
               = Len(massive_results[1].leads_extracted)

\* C30 amended: the extraction function is applied at most once per item, in
\* provider order then item order, to an initial part of the items; when no
\* exception is raised in the leads stage it is applied to every item and
\* leads_extracted is the concatenation of the lists it returned; when an
\* exception is raised in the stage leads_extracted is empty; leads_count =
\* len(leads_extracted) in both cases.
C30_ExtractedUnlessStageFails ==
    (HasReturned(1) /\ Logged(1, "leads")) =>
        /\ IsPrefix(lead_calls[1].extracted, AllItems(1))
        /\ Len(lead_calls[1].returned) <= Len(lead_calls[1].extracted)
        /\ ~Logged(1, "leads_failed") =>
               /\ lead_calls[1].extracted = AllItems(1)
               /\ Len(lead_calls[1].returned) = Len(AllItems(1))
               /\ massive_results[1].leads_extracted = Flatten(lead_calls[1].returned)
        /\ Logged(1, "leads_failed") => massive_results[1].leads_extracted = <<>>
        /\ massive_results[1].statistics.leads_count
               = Len(massive_results[1].leads_extracted)

\* C30 witness: two providers brought one item each, each item gave a lead,
\* a post of the social stage gave none, and leads_extracted holds the two
\* leads in provider order
C30_Witness ==
    /\ HasReturned(1)
    /\ ~Logged(1, "leads_failed")
    /\ Len(lead_calls[1].extracted) = 2
    /\ lead_calls[1].extracted[1].url # lead_calls[1].extracted[2].url
    /\ massive_results[1].statistics.social_posts = 1
    /\ Len(massive_results[1].leads_extracted) = 2
    /\ massive_results[1].leads_extracted[1].url = lead_calls[1].extracted[1].url
    /\ massive_results[1].statistics.leads_count = 2

(***************************************************************************)
(* Properties of the adapters inside interleaved_search.                   *)
(***************************************************************************)
\* r is a result dict of an adapter: a success with its items or a failure
\* with an error text
IsResultRecord(r) ==
    /\ ~IsException(r)
    /\ "success" \in DOMAIN r
    /\ IF r.success THEN "results" \in DOMAIN r ELSE "error" \in DOMAIN r

\* C23: an adapter never lets an exception reach the coordinator: every
\* adapter that has finished has returned a result dict, a failure dict
\* with the error text when something was raised, so every entry gather
\* hands to the loop of interleaved_search is a dict and never an exception.
C23_AdaptersNeverRaise ==
    /\ \A p \in ProviderSet : task[1][p] = "done" => IsResultRecord(result[1][p])
    /\ (pc[1] = "gather" /\ AllFinished(1)) =>
           \A k \in 1..Len(GatherResults(1)) : IsResultRecord(GatherResults(1)[k])
    /\ pc[1] # "raised"

\* C23 witness: the request of one adapter raised, the coordinator got its
\* failure dict and counted it, next to a provider that succeeded
C23_Witness ==
    /\ pc[1] = "done"
    /\ result[1]["EXA"] = Failure("exception")
    /\ search_results[1].failed_searches = 1
    /\ search_results[1].successful_searches = 1
    /\ provider_stats["EXA"].failures = 1

\* the content-extraction-only providers
ExtractionOnly == ProviderSet \ NetworkProviders

\* the retained results of the providers that issue a search request
NetworkResults(i) ==
    SelectSeq(search_results[i].all_results, LAMBDA r : r.provider \in NetworkProviders)

\* C25: a configured FIRECRAWL or JINA adapter always returns a success with
\* an empty item list; in interleaved_search it counts in
\* successful_searches and in its successes counter, is retained in
\* all_results, adds no url to consolidated_urls and is never counted as
\* failed.
C25_ExtractionOnlyEmptySuccess ==
    \A p \in ExtractionOnly \cap DOMAIN api_keys :
        /\ task[1][p] = "done" => result[1][p] = Success(p, <<>>)
        /\ pc[1] = "done" =>
               /\ provider_stats[p].successes = 1
               /\ provider_stats[p].failures = 0
               /\ \E k \in 1..Len(search_results[1].all_results) :
                      search_results[1].all_results[k] = Success(p, <<>>)
               /\ search_results[1].successful_searches
                      >= Cardinality(ExtractionOnly \cap DOMAIN api_keys)
               /\ search_results[1].failed_searches
                      <= Cardinality(NetworkProviders \cap DOMAIN api_keys)
               /\ search_results[1].consolidated_urls
                      = AggregateUrls(<<>>, NetworkResults(1))

\* C25 witness: FIRECRAWL and JINA are configured next to a provider that
\* failed and one that brought a url: two of the three successes are theirs
\* and the url list holds the one url
C25_Witness ==
    /\ pc[1] = "done"
    /\ {"FIRECRAWL", "JINA", "SERPER", "EXA"} \subseteq DOMAIN api_keys
    /\ search_results[1].successful_searches = 3
    /\ search_results[1].failed_searches = 1
    /\ Len(search_results[1].all_results) = 3
    /\ search_results[1].consolidated_urls = <<"b">>
    /\ provider_stats["JINA"].successes = 1

\* the credential requests the adapters of provider p have made: one per
\* interleaved_search call whose adapter of p has started
AdapterRequests(p) ==
    nruns - Cardinality({i \in InFlight : task[i][p] = "new"})

\* the requests counter the manager reports for p (no entry before the
\* first request)
RequestsOf(p) ==
    IF p \in DOMAIN provider_stats THEN provider_stats[p].requests ELSE 0

\* C26: nothing is retried inside a call of interleaved_search: every
\* configured provider has exactly one adapter per call, the adapter asks
\* for exactly one credential whether it succeeds or fails, so per call the
\* provider's cursor moves one position (mod pool size) and its requests
\* counter rises by one; the only other requests are the direct calls.
C26_NoRetry ==
    /\ \A i \in Invs : pc[i] # "idle" =>
           \A p \in ProviderSet :
               Cardinality({k \in 1..Len(search_tasks[i]) : search_tasks[i][k] = p})
                   = IF p \in DOMAIN api_keys THEN 1 ELSE 0
    /\ \A p \in DOMAIN api_keys :
           /\ RequestsOf(p) = Len(returned[p])
           /\ Len(returned[p]) - AdapterRequests(p) \in 0..ncalls
           /\ key_indices[p] = Len(returned[p]) % Len(api_keys[p])

\* C26 witness: a call whose only adapter failed has ended, the provider's
\* pool has two keys, one was requested and the cursor stands on the other
C26_Witness ==
    /\ nruns = 1
    /\ ncalls = 0
    /\ pc[1] = "done"
    /\ "EXA" \in DOMAIN api_keys
    /\ Len(api_keys["EXA"]) = 2
    /\ search_results[1].failed_searches = 1
    /\ provider_stats["EXA"].requests = 1
    /\ provider_stats["EXA"].failures = 1
    /\ key_indices["EXA"] = 1

(***************************************************************************)
(* Properties of an adapter without a credential, of get_provider_stats    *)
(* and of repeated aggregator calls.                                       *)
(***************************************************************************)
\* C24: an adapter that gets no credential from the rotation store returns
\* a failure dict that carries its provider name and issues no network
\* request, for each of the five adapters.
C24_NoCredentialTagged ==
    (adapter_call.state = "done" /\ NoKey(adapter_call.provider)) =>
        /\ adapter_call.result.success = FALSE
        /\ adapter_call.requests = 0
        /\ "provider" \in DOMAIN adapter_call.result
        /\ adapter_call.result.provider = adapter_call.provider

\* C27: nothing a caller does with the dict get_provider_stats returned,
\* assigning a counter inside a provider's entry included, changes the
\* statistics of the manager.
C27_ReadOnlyForCallers ==
    [][caller_stats' # caller_stats => provider_stats' = provider_stats]_vars

\* the set of the elements of a list
Range(seq) == {seq[k] : k \in 1..Len(seq)}

\* C22: two calls of the aggregator on one manager with the same inputs,
\* against deterministic doubles with a fixed completion order, return the
\* same statistics.total_sources and the same set of consolidated_urls,
\* although the first call moved the cursors and the statistics.
C22_SameOutcomeTwice ==
    (mpc[1] = "returned" /\ mpc[2] = "returned") =>
        /\ massive_results[1].statistics.total_sources
               = massive_results[2].statistics.total_sources
        /\ Range(massive_results[1].consolidated_urls)
               = Range(massive_results[2].consolidated_urls)

\* C22 witness: both calls have returned; the provider's pool has two keys,
\* the first call used one and the second the other, the counters stand at
\* two, and both aggregates count two sources and hold the same url
C22_Witness ==
    /\ mpc[1] = "returned" /\ mpc[2] = "returned"
    /\ "SERPER" \in DOMAIN api_keys
    /\ Len(api_keys["SERPER"]) = 2
    /\ Len(returned["SERPER"]) = 2
    /\ returned["SERPER"][1] # returned["SERPER"][2]
    /\ provider_stats["SERPER"].requests = 2
    /\ provider_stats["SERPER"].successes = 2
    /\ massive_results[1].statistics.total_sources = 2
    /\ massive_results[2].statistics.total_sources = 2
    /\ massive_results[1].consolidated_urls = <<"a">>
    /\ massive_results[2].consolidated_urls = <<"a">>

(***************************************************************************)
(* Properties of the leads stage.                                          *)
(***************************************************************************)
\* the leads the extraction function returned in run i, in call order
LeadsReturned(i) == Flatten(lead_calls[i].returned)

\* C31 as stated: save_leads_locally is called at most once per run, and it
\* is called, with the full lead list, if and only if at least one lead
\* was extracted.
C31_SavedIffLeads ==
    (HasReturned(1) /\ Logged(1, "leads")) =>
        /\ Len(lead_calls[1].saved) <= 1
        /\ lead_calls[1].saved # <<>> <=> LeadsReturned(1) # <<>>
        /\ lead_calls[1].saved # <<>> => lead_calls[1].saved[1] = LeadsReturned(1)

\* the extraction loop and the loop over viral_content of run i ended
\* without an exception
LoopsCompleted(i) ==
    /\ Len(lead_calls[i].returned) = Len(lead_calls[i].extracted)
    /\ lead_calls[i].extracted = AllItems(i)
    /\ massive_results[i].viral_content # NoneList

\* C31 amended: save_leads_locally is called at most once per run; it is
\* called, with the full lead list, if and only if the extraction function
\* returned for every item, the loop over viral_content ended without an
\* exception and at least one lead was returned; leads returned before an
\* exception in the stage are not saved.
C31_SavedIffLeadsAndNoException ==
    (HasReturned(1) /\ Logged(1, "leads")) =>
        /\ Len(lead_calls[1].saved) <= 1
        /\ lead_calls[1].saved # <<>> <=>
               (LoopsCompleted(1) /\ LeadsReturned(1) # <<>>)
        /\ lead_calls[1].saved # <<>> => lead_calls[1].saved[1] = LeadsReturned(1)
        /\ (LeadsReturned(1) = <<>>) => lead_calls[1].saved = <<>>

\* C31 witness: two items gave one lead each and save_leads_locally was
\* called once with both
C31_Witness ==
    /\ HasReturned(1)
    /\ ~Logged(1, "leads_failed")
    /\ Len(lead_calls[1].saved) = 1
    /\ Len(lead_calls[1].saved[1]) = 2
    /\ lead_calls[1].saved[1] = massive_results[1].leads_extracted

(***************************************************************************)
(* Properties of credential loading.                                       *)
(***************************************************************************)
\* the suffixes of the variables of p that are loaded: the unsuffixed one,
\* and suffix n >= 1 when every suffix from 1 to n is set
LoadedSuffixes(p) ==
    {n \in env[p] : \A m \in 1..n : m \in env[p]}

\* C32: the pool of a provider is the unsuffixed key if set, followed by
\* the keys with suffix 1, 2, ... up to the first missing suffix, in that
\* order; a key beyond the first gap is ignored, and a provider whose pool
\* would be empty is not registered.
C32_PoolUpToFirstGap ==
    \A p \in ProviderSet :
        /\ p \in DOMAIN api_keys <=> LoadedSuffixes(p) # {}
        /\ p \in DOMAIN api_keys =>
               /\ Range(api_keys[p]) = LoadedSuffixes(p)
               /\ Len(api_keys[p]) = Cardinality(LoadedSuffixes(p))
               /\ \A j, k \in 1..Len(api_keys[p]) :
                      j < k => api_keys[p][j] < api_keys[p][k]
        /\ \A n \in 1..Len(returned[p]) :
               returned[p][n] # None => returned[p][n] \in LoadedSuffixes(p)

\* C32 witness: one provider has the unsuffixed key and a key with suffix 2
\* but none with suffix 1: its pool is the unsuffixed key alone, which it
\* has handed out twice; another has only the key with suffix 2 and is not
\* registered
C32_Witness ==
    /\ env["SERPER"] = {0, 2}
    /\ api_keys["SERPER"] = <<0>>
    /\ returned["SERPER"] = <<0, 0>>
    /\ env["EXA"] = {2}
    /\ "EXA" \notin DOMAIN api_keys
    /\ returned["EXA"] = <<None>>

(***************************************************************************)
(* Termination.                                                            *)
(***************************************************************************)
\* C33: when every adapter and every collaborator answers, an aggregator
\* run that was started returns its aggregate; and interleaved_search
\* returns only after every adapter it launched has finished.
C33_Terminates ==
    /\ (nruns = 1) ~> HasReturned(1)
    /\ [][(pc[1] = "gather" /\ pc'[1] # "gather") => AllFinished(1)]_vars

\* C33 witness: a run with two adapters, one of which failed, in which the
\* navigation and the social extraction failed too, has returned after the
\* final statistics were computed
C33_Witness ==
    /\ HasReturned(1)
    /\ Len(completed[1]) = 2
    /\ search_results[1].failed_searches = 1
    /\ Logged(1, "navigation_failed")
    /\ Logged(1, "social_failed")
    /\ Logged(1, "finalize")

(***************************************************************************)
(* Properties of the provider statistics.                                  *)
(***************************************************************************)
\* C34: for every provider with a statistics entry successes + failures <=
\* requests; no counter ever decreases (and no entry disappears); when no
\* search is in flight and every credential was drawn through
\* interleaved_search, successes + failures = requests.
C34_CountersConsistent ==
    /\ [](\A p \in DOMAIN provider_stats :
             LET st == provider_stats[p]
             IN /\ st.successes + st.failures <= st.requests
                /\ (InFlight = {} /\ ncalls = 0) =>
                       st.successes + st.failures = st.requests)
    /\ [][\A p \in DOMAIN provider_stats :
             /\ p \in DOMAIN provider_stats'
             /\ \A c \in Counters : provider_stats'[p][c] >= provider_stats[p][c]]_vars

\* C34 witness: after two calls of interleaved_search and no direct call a
\* provider has two requests, one success and one failure
C34_Witness ==
    /\ InFlight = {}
    /\ ncalls = 0
    /\ nruns = 2
    /\ \E p \in DOMAIN provider_stats :
           /\ provider_stats[p].requests = 2
           /\ provider_stats[p].successes = 1
           /\ provider_stats[p].failures = 1

(***************************************************************************)
(* Further properties of interleaved_search and get_next_api_key.          *)
(***************************************************************************)
\* the outcomes interleaved_search has counted for provider p
CountedOutcomes(p) ==
    IF p \in DOMAIN provider_stats
    THEN provider_stats[p].successes + provider_stats[p].failures
    ELSE 0

\* C35: every interleaved_search outcome has successful_searches +
\* failed_searches = number of configured providers, and every launched
\* adapter is classified once, as a success or as a failure.
C35_EveryAdapterClassified ==
    pc[1] = "done" =>
        /\ search_results[1].successful_searches + search_results[1].failed_searches
               = Cardinality(DOMAIN api_keys)
        /\ Launched(1) = DOMAIN api_keys
        /\ \A p \in Launched(1) : CountedOutcomes(p) = 1
        /\ \A p \in ProviderSet \ Launched(1) : CountedOutcomes(p) = 0
        /\ search_results[1].successful_searches = Cardinality(Succeeded(1))

\* C35 witness: three providers are configured; two succeeded and the third,
\* GOOGLE without search-engine id, failed
C35_Witness ==
    /\ pc[1] = "done"
    /\ DOMAIN api_keys = {"GOOGLE", "EXA", "JINA"}
    /\ search_results[1].successful_searches = 2
    /\ search_results[1].failed_searches = 1
    /\ provider_stats["GOOGLE"].failures = 1

\* C36: when interleaved_search counts the outcome of a provider, the
\* provider has a statistics entry, created when its adapter drew its
\* credential, so the update never fails on a missing entry, whatever the
\* adapter's outcome, a failure before any request included.
C36_EntryExistsAtUpdate ==
    /\ \A p \in ProviderSet :
           task[1][p] \in {"net", "done"} => p \in DOMAIN provider_stats
    /\ (pc[1] = "gather" /\ AllFinished(1)) =>
           /\ Launched(1) \subseteq DOMAIN provider_stats
           /\ ~Gathered(1).raised
    /\ pc[1] # "raised"

\* C36 witness: the adapter of GOOGLE failed before any request and that of
\* FIRECRAWL returned without one; both outcomes were counted in entries
\* that hold one request each
C36_Witness ==
    /\ pc[1] = "done"
    /\ ~cse_id
    /\ {"GOOGLE", "FIRECRAWL"} \subseteq DOMAIN provider_stats
    /\ provider_stats["GOOGLE"] = [requests |-> 1, successes |-> 0, failures |-> 1]
    /\ provider_stats["FIRECRAWL"] = [requests |-> 1, successes |-> 1, failures |-> 0]

\* C37: a get_next_api_key call that returns absent changes nothing in the
\* manager: no cursor moves, no statistics entry is created, no requests
\* counter is incremented.
C37_AbsentChangesNothing ==
    [][\A p \in ProviderSet \cup {Unknown} :
          (/\ Len(returned'[p]) = Len(returned[p]) + 1
           /\ returned'[p][Len(returned'[p])] = None) =>
              /\ key_indices' = key_indices
              /\ provider_stats' = provider_stats
              /\ api_keys' = api_keys]_vars

\* C37 witness: after a credential was handed out, an unconfigured and an
\* unknown provider were asked; the only statistics entry is that of the
\* configured provider, with one request
C37_Witness ==
    /\ ncalls = 3
    /\ returned[Unknown] = <<None>>
    /\ \E q \in ProviderSet \ DOMAIN api_keys : returned[q] = <<None>>
    /\ \E p \in DOMAIN api_keys :
           /\ Len(api_keys[p]) = 2
           /\ key_indices[p] = 1
           /\ DOMAIN provider_stats = {p}
           /\ provider_stats[p].requests = 1

\* C38: when GOOGLE has credentials and no search-engine id is configured,
\* every interleaved_search launches its adapter, which draws one
\* credential (the cursor moves on), issues no request and returns a
\* failure; GOOGLE is counted in failed_searches and in its failures
\* counter, never retained.
C38_GoogleWithoutCseFails ==
    ("GOOGLE" \in DOMAIN api_keys /\ ~cse_id) =>
        /\ \A i \in Invs :
               /\ pc[i] # "idle" => "GOOGLE" \in Launched(i)
               /\ task[i]["GOOGLE"] # "net"
               /\ task[i]["GOOGLE"] = "done" =>
                      result[i]["GOOGLE"] = NoCredential("GOOGLE")
               /\ pc[i] = "done" =>
                      /\ search_results[i].failed_searches >= 1
                      /\ \A k \in 1..Len(search_results[i].all_results) :
                             search_results[i].all_results[k].provider # "GOOGLE"
        /\ Len(returned["GOOGLE"]) - AdapterRequests("GOOGLE") \in 0..ncalls
        /\ key_indices["GOOGLE"] = Len(returned["GOOGLE"]) % Len(api_keys["GOOGLE"])
        /\ "GOOGLE" \in DOMAIN provider_stats => provider_stats["GOOGLE"].successes = 0
        /\ (InFlight = {} /\ ncalls = 0) =>
               /\ RequestsOf("GOOGLE") = nruns
               /\ nruns > 0 => provider_stats["GOOGLE"].failures = nruns

\* C38 witness: GOOGLE has two keys and no search-engine id; two calls have
\* ended, each drew one of the keys and each counted a failure
C38_Witness ==
    /\ ~cse_id
    /\ InFlight = {}
    /\ nruns = 2
    /\ "GOOGLE" \in DOMAIN api_keys
    /\ Len(api_keys["GOOGLE"]) = 2
    /\ returned["GOOGLE"] = api_keys["GOOGLE"]
    /\ provider_stats["GOOGLE"] = [requests |-> 2, successes |-> 0, failures |-> 2]
    /\ \A i \in Invs : search_results[i].failed_searches = 1

\* C39: when the leads stage fails at any point, a failure of
\* save_leads_locally after the extraction included, the returned result
\* has leads_extracted = [] and leads_count = 0, no error marker and no
\* top-level error field is recorded for it (the result has no field but
\* those of a run without failure, and an error field only when the final
\* sum failed on a page count that is not a number), and the finalization
\* is entered: search_duration is set and total_sources computed.
C39_LeadsFailureDiscardsLeads ==
    (HasReturned(1) /\ Logged(1, "leads_failed")) =>
        LET mr == massive_results[1]
        IN /\ mr.leads_extracted = <<>>
           /\ mr.statistics.leads_count = 0
           /\ DOMAIN mr \ {"error"}
                  = DOMAIN NewMassiveResults \cup {"consolidated_urls", "leads_extracted"}
           /\ ~Logged(1, "navigation_failed") => ~IsErrorMarker(mr.websailor_results)
           /\ ~Logged(1, "social_failed") => ~IsErrorMarker(mr.social_results)
           /\ HasErrorField(1) <=> mr.statistics.websailor_pages = None
           /\ Logged(1, "finalize")
           /\ mr.statistics.search_duration = Elapsed
           /\ mr.statistics.websailor_pages # None => TotalIsSum(mr.statistics)

\* C39 witness: a lead was extracted and handed to save_leads_locally, which
\* raised; the result has no lead, no error field, and its totals
C39_Witness ==
    /\ HasReturned(1)
    /\ FailedStages(1) = {"leads_failed"}
    /\ Len(lead_calls[1].saved) = 1
    /\ lead_calls[1].saved[1] # <<>>
    /\ massive_results[1].leads_extracted = <<>>
    /\ massive_results[1].statistics.leads_count = 0
    /\ ~HasErrorField(1)
    /\ massive_results[1].statistics.total_sources = 1
    /\ massive_results[1].statistics.search_duration = Elapsed

(***************************************************************************)
(* Properties of the analysis route.                                       *)
(***************************************************************************)
\* C40: every progress update of the pipeline (steps 1, 2, 3, 3.5 and 4) is
\* accepted by update_progress without an exception, so a run in which
\* every external stage succeeds reaches the module generation and returns
\* success.
C40_ProgressUpdatesAccepted ==
    \A s \in Sessions :
        /\ analysis[s].error_type # "TypeError"
        /\ (analysis[s].pc = "returned" /\ ~analysis[s].stage_failed) =>
               /\ analysis[s].success
               /\ Phases[analysis[s].stage] = "geracao_modulos"

====
